---- MODULE Spec2Model ----
(***************************************************************************)
(* Model of the MCP host under trial/: the tool base (tenant scoping,      *)
(* case-insensitive injection, allow-list), the six tools, the telemetry   *)
(* buffer with its flush worker, and the per-tenant conversation history   *)
(* of the chat orchestrator.                                               *)
(*                                                                         *)
(* JSON / BSON values are records of one shape [t, s, items]:              *)
(*   t = "str"   s = the string as a sequence of chunks                    *)
(*   t = "oid"   s = <<id>>            (bson.ObjectId)                     *)
(*   t = "date"  s = the chunks of the parsed ISO string (datetime)        *)
(*   t = "bool" / "int" / "null"   s = <<literal as a string>>             *)
(*   t = "dict"  items = the (key, value) pairs in insertion order         *)
(*   t = "list"  items = the elements, each under the key ""               *)
(* A Python dict keeps insertion order and assignment to an existing key   *)
(* keeps the key's position; the operators below keep both.                *)
(***************************************************************************)
EXTENDS Integers, Sequences, FiniteSets, TLC

----------------------------------------------------------------------------
(* Values *)

Str(cs)     == [t |-> "str",  s |-> cs, items |-> <<>>]
Oid(x)      == [t |-> "oid",  s |-> <<x>>, items |-> <<>>]
Date(cs)    == [t |-> "date", s |-> cs, items |-> <<>>]
Bool(b)     == [t |-> "bool", s |-> <<IF b THEN "true" ELSE "false">>, items |-> <<>>]
Num(n)      == [t |-> "int",  s |-> <<n>>, items |-> <<>>]
Null        == [t |-> "null", s |-> <<>>, items |-> <<>>]
Dict(its)   == [t |-> "dict", s |-> <<>>, items |-> its]
List(its)   == [t |-> "list", s |-> <<>>, items |-> its]
KV(k, v)    == [k |-> k, v |-> v]
EmptyDict   == Dict(<<>>)
ListOf(vs)  == List([i \in 1..Len(vs) |-> KV("", vs[i])])

IsDict(v)   == v.t = "dict"
IsList(v)   == v.t = "list"
IsStr(v)    == v.t = "str"

\* Python truthiness of a value: None, {}, [], "" and False are falsy.
Truthy(v) ==
    CASE v.t = "null" -> FALSE
      [] v.t = "dict" -> Len(v.items) > 0
      [] v.t = "list" -> Len(v.items) > 0
      [] v.t = "str"  -> Len(v.s) > 0
      [] v.t = "bool" -> v.s = <<"true">>
      [] v.t = "int"  -> v.s # <<"0">>
      [] OTHER        -> TRUE

Keys(d)      == {d.items[i].k : i \in 1..Len(d.items)}
HasKey(d, k) == \E i \in 1..Len(d.items) : d.items[i].k = k
KeyIndex(d, k) == CHOOSE i \in 1..Len(d.items) : d.items[i].k = k
Get(d, k)    == d.items[KeyIndex(d, k)].v

\* d[k] = v : replace in place when the key exists, else append at the end.
DictSet(d, k, v) ==
    IF HasKey(d, k)
    THEN Dict([d.items EXCEPT ![KeyIndex(d, k)] = KV(k, v)])
    ELSE Dict(Append(d.items, KV(k, v)))

RECURSIVE UpdateFrom(_, _, _)
UpdateFrom(base, its, i) ==
    IF i > Len(its) THEN base
    ELSE UpdateFrom(DictSet(base, its[i].k, its[i].v), its, i + 1)

\* base.update(extra)
DictUpdate(base, extra) == UpdateFrom(base, extra.items, 1)

----------------------------------------------------------------------------
(* Strings.  A string is a sequence of chunks; a chunk is either one       *)
(* character that re.escape() escapes or a run of alphanumerics.           *)

SpecialChunks == {"^", "$", ".", "-", "\\", " ", "\""}

RECURSIVE re_escape(_)
re_escape(cs) ==
    IF cs = <<>> THEN <<>>
    ELSE (IF Head(cs) \in SpecialChunks THEN <<"\\", Head(cs)>> ELSE <<Head(cs)>>)
         \o re_escape(Tail(cs))

\* key.strip(): the keys of the model that carry surrounding whitespace.
StripKey(k) ==
    CASE k = " company" -> "company"
      [] k = "company " -> "company"
      [] k = " $match"  -> "$match"
      [] k = " $group"  -> "$group"
      [] OTHER          -> k

\* key.startswith("$")
DollarKeys == {"$match", "$group", "$project", "$facet", "$count", "$sort",
               "$limit", "$regex", "$options", "$exists", "$ne", "$eq",
               "$and", "$or", "$in", "$sum", "$avg", "$min", "$max", "$text",
               "$search", "$meta"}
StartsWithDollar(k) == k \in DollarKeys

----------------------------------------------------------------------------
(* tools/tool_base.py, utils/company_id.py, tools/aggregate.py,            *)
(* tools/find.py : the pure transformations of filters and pipelines.      *)

\* Marker of an absent (None) collection argument.
NoColl == "<None>"

RECURSIVE _inject_case_insensitive(_)
_inject_case_insensitive(obj) ==
    CASE IsDict(obj) ->
           Dict([i \in 1..Len(obj.items) |->
                  LET k == obj.items[i].k
                      v == obj.items[i].v
                  IN  IF StartsWithDollar(k) /\ (IsDict(v) \/ IsList(v))
                      THEN KV(k, v)
                      ELSE KV(k, _inject_case_insensitive(v))])
      [] IsList(obj) ->
           List([i \in 1..Len(obj.items) |->
                  KV("", _inject_case_insensitive(obj.items[i].v))])
      [] IsStr(obj) ->
           Dict(<<KV("$regex", Str(re_escape(obj.s))), KV("$options", Str(<<"i">>))>>)
      [] OTHER -> obj

\* The key under which a collection's documents carry their tenant.
TenantKey(coll) == IF coll = "companies" THEN "_id" ELSE "company"

\* make_company_filter for a string collection name and a valid company id
\* (the other cases raise; ToolBaseRun decides them before calling this).
make_company_filter(coll, company_id, extra_filter) ==
    LET base == Dict(<<KV(TenantKey(coll), Oid(company_id))>>)
    IN  IF Truthy(extra_filter) THEN DictUpdate(base, extra_filter) ELSE base

\* dateutil isoparse succeeds on these strings of the model.
IsoStrings == {<<"2024", "-", "01", "-", "01">>, <<"2024">>}

RECURSIVE _convert_iso_dates(_)
_convert_iso_dates(obj) ==
    CASE IsDict(obj) ->
           Dict([i \in 1..Len(obj.items) |->
                  KV(obj.items[i].k, _convert_iso_dates(obj.items[i].v))])
      [] IsList(obj) ->
           List([i \in 1..Len(obj.items) |->
                  KV("", _convert_iso_dates(obj.items[i].v))])
      [] IsStr(obj) -> IF obj.s \in IsoStrings THEN Date(obj.s) ELSE obj
      [] OTHER -> obj

\* clean() of _sanitize_pipeline_keys: a dict comprehension by assignment,
\* so two keys that strip to the same key collapse and the later value wins.
RECURSIVE clean(_)
RECURSIVE CleanItems(_, _, _)
CleanItems(out, its, i) ==
    IF i > Len(its) THEN out
    ELSE CleanItems(DictSet(out, StripKey(its[i].k), clean(its[i].v)), its, i + 1)

clean(doc) ==
    CASE IsDict(doc) -> CleanItems(EmptyDict, doc.items, 1)
      [] IsList(doc) ->
           List([i \in 1..Len(doc.items) |-> KV("", clean(doc.items[i].v))])
      [] OTHER -> doc

\* pl is a sequence of stages.
_sanitize_pipeline_keys(pl) == [i \in 1..Len(pl) |-> clean(pl[i])]

\* re.fullmatch(r"^\^(.*)\$$", s): s begins with "^" and ends with "$".
IsAnchored(cs) == Len(cs) >= 2 /\ cs[1] = "^" /\ cs[Len(cs)] = "$"

RECURSIVE _unwrap_ci_regex(_)
_unwrap_ci_regex(obj) ==
    CASE IsList(obj) ->
           List([i \in 1..Len(obj.items) |-> KV("", _unwrap_ci_regex(obj.items[i].v))])
      [] IsDict(obj) ->
           IF /\ Keys(obj) = {"$regex", "$options"}
              /\ Get(obj, "$options") = Str(<<"i">>)
              /\ IsStr(Get(obj, "$regex"))
              /\ IsAnchored(Get(obj, "$regex").s)
           THEN Str(SubSeq(Get(obj, "$regex").s, 2, Len(Get(obj, "$regex").s) - 1))
           ELSE Dict([i \in 1..Len(obj.items) |->
                       KV(obj.items[i].k, _unwrap_ci_regex(obj.items[i].v))])
      [] OTHER -> obj

----------------------------------------------------------------------------
(* Tool arguments.  One record shape for every tool; a field a tool's      *)
(* pydantic model does not declare is ignored by that tool.  Absent        *)
(* optional fields are Null (None); an absent collection is NoColl.        *)

ToolNames == {"list_collections", "collection_schema", "count", "find",
              "aggregate", "search"}

MkArgs(coll, filter, pipeline, groupBy, statField, statOp, sortBy, term) ==
    [filter |-> filter, pipeline |-> pipeline, groupBy |-> groupBy,
     statField |-> statField, statOp |-> statOp, sortBy |-> sortBy,
     term |-> term, collection |-> coll]

\* hasattr(validated, "filter") / "pipeline" / "collection"
HasFilterField(tool)     == tool \in {"count", "find", "aggregate"}
HasPipelineField(tool)   == tool = "aggregate"
HasCollectionField(tool) == tool \in {"count", "find", "aggregate", "collection_schema"}

\* Model(**args_dict): the pydantic validation of each tool's arguments.
ValidArgs(tool, a) ==
    CASE tool = "count" -> a.collection # NoColl /\ IsDict(a.filter)
      [] tool = "find" -> IsDict(a.filter)
      [] tool = "collection_schema" -> a.collection # NoColl
      [] tool = "aggregate" ->
           /\ a.collection # NoColl
           /\ a.filter.t \in {"dict", "null"}
           /\ a.pipeline.t \in {"list", "null"}
           /\ (Truthy(a.pipeline) \/ Truthy(a.groupBy) \/ Truthy(a.statField))
      [] OTHER -> TRUE

\* run, lines 59-70: the filter after tenant scoping and injection.
\* Raises (HTTPException 400 of make_company_filter) when the collection
\* is None and therefore not in the non-tenant list.
FilterScopeRaises(a, nonTenant) ==
    a.collection \notin nonTenant /\ a.collection = NoColl

ScopedFilter(a, tenant, nonTenant) ==
    LET extra == IF Truthy(a.filter) THEN a.filter ELSE EmptyDict
    IN  IF a.collection \in nonTenant
        THEN (IF Truthy(extra) THEN _inject_case_insensitive(extra) ELSE EmptyDict)
        ELSE _inject_case_insensitive(make_company_filter(a.collection, tenant, extra))

\* run, lines 72-88: the pipeline (a sequence of stages) after tenant scoping.
PipelineSeq(p) == IF IsList(p) THEN [i \in 1..Len(p.items) |-> p.items[i].v] ELSE <<>>

ScopedPipeline(a, tenant, nonTenant) ==
    LET pipeline     == PipelineSeq(a.pipeline)
        tenant_match == make_company_filter(a.collection, tenant, Null)
        first_stage  == IF Len(pipeline) > 0 THEN pipeline[1] ELSE EmptyDict
        keyed        == /\ IsDict(first_stage)
                        /\ HasKey(first_stage, "$match")
                        /\ IsDict(Get(first_stage, "$match"))
                        /\ \E key \in Keys(tenant_match) :
                              HasKey(Get(first_stage, "$match"), key)
    IN  IF a.collection \in nonTenant THEN pipeline
        ELSE IF keyed THEN pipeline
        ELSE <<Dict(<<KV("$match", tenant_match)>>)>> \o pipeline

----------------------------------------------------------------------------
(* The tools' execute steps.  Each yields [exc, msg, ops, result]: the     *)
(* exception it raises ("none" when it returns), the operations it issues  *)
(* on MongoDB in order, and its result.                                    *)

Msg(kind, coll, list) == [coll |-> coll, kind |-> kind, list |-> list]
NoMsg == Msg("", "", <<>>)
Op(op, coll, q) == [coll |-> coll, op |-> op, q |-> q]
Exec(exc, msg, ops, result) == [exc |-> exc, msg |-> msg, ops |-> ops, result |-> result]

\* tools/list_collections.py
STATIC_COLLECTIONS ==
    <<"companies", "plans", "brokers", "broker-payments", "contracts",
      "contractors", "contractor-payments", "general-expenses", "lands",
      "projects", "properties", "property-bookings", "property-payments",
      "rent-payments", "tenants", "leads", "lead-assignments",
      "lead-rotations", "lead-visited-properties", "lead-notes", "amenities",
      "cold-leads", "lead-visited-properties">>

StrList(names) == List([i \in 1..Len(names) |-> KV("", Str(<<names[i]>>))])

ListCollectionsExecute ==
    Exec("none", NoMsg, <<>>, Dict(<<KV("result", StrList(STATIC_COLLECTIONS))>>))

\* The collections of the static schema registry (src/db_schema.SCHEMAS).
SchemaCollections == {"leads", "companies", "plans", "brokers"}

CollectionSchemaExecute(a) ==
    IF a.collection \notin SchemaCollections
    THEN Exec("ToolException", Msg("unknown_collection", a.collection, <<>>), <<>>, Null)
    ELSE Exec("none", NoMsg, <<>>, Dict(<<KV("fields", EmptyDict), KV("values", EmptyDict)>>))

\* tools/count.py.  dbError is the exception count_documents raises, "none"
\* when it answers.
CountExecute(a, filt, dbError) ==
    Exec(dbError, NoMsg,
         <<Op("count_documents", a.collection, IF Truthy(filt) THEN filt ELSE EmptyDict)>>,
         IF dbError = "none" THEN Dict(<<KV("result", Num("n"))>>) ELSE Null)

\* tools/find.py.  re.fullmatch raises TypeError on a $regex that is no string.
RECURSIVE UnwrapRaises(_)
UnwrapRaises(obj) ==
    CASE IsList(obj) -> \E i \in 1..Len(obj.items) : UnwrapRaises(obj.items[i].v)
      [] IsDict(obj) ->
           IF /\ Keys(obj) = {"$regex", "$options"}
              /\ Get(obj, "$options") = Str(<<"i">>)
           THEN ~IsStr(Get(obj, "$regex"))
           ELSE \E i \in 1..Len(obj.items) : UnwrapRaises(obj.items[i].v)
      [] OTHER -> FALSE

\* The loop over coll_list: one find per collection, stopping after the
\* first collection of `hits` (the collections that yield documents).
RECURSIVE FindOps(_, _, _, _)
FindOps(colls, filter_doc, hits, stopAfterFirst) ==
    IF colls = <<>> THEN <<>>
    ELSE <<Op("find", Head(colls), filter_doc)>> \o
         (IF Head(colls) \in hits /\ stopAfterFirst THEN <<>>
          ELSE FindOps(Tail(colls), filter_doc, hits, stopAfterFirst))

MAX_COLLECTIONS_SCAN == 100

FindExecute(a, filt, allowed, dbColls, hits, stopAfterFirst, dbError) ==
    IF UnwrapRaises(filt)
    THEN Exec("TypeError", NoMsg, <<>>, Null)
    ELSE LET filter_doc == _unwrap_ci_regex(filt)
             listed     == a.collection = NoColl /\ allowed = <<>>
             whitelist  == IF allowed # <<>> THEN allowed ELSE dbColls
             coll_list  == IF a.collection # NoColl THEN <<a.collection>>
                           ELSE SubSeq(whitelist, 1,
                                  IF Len(whitelist) > MAX_COLLECTIONS_SCAN
                                  THEN MAX_COLLECTIONS_SCAN ELSE Len(whitelist))
             listing    == IF listed THEN <<Op("list_collection_names", "", Null)>>
                           ELSE <<>>
         IN  IF dbError = "none"
             THEN Exec("none", NoMsg,
                       listing \o FindOps(coll_list, filter_doc, hits, stopAfterFirst),
                       Dict(<<KV("collections_scanned", StrList(coll_list))>>))
             ELSE \* lines 141-147: the first query raises inside the try
                  Exec("ToolException",
                       Msg(IF dbError \in {"ConnectionFailure", "OperationFailure"}
                           THEN "database_error" ELSE "internal_error_in_find",
                           "find", <<>>),
                       listing \o FindOps(SubSeq(coll_list, 1, 1), filter_doc, {}, TRUE),
                       Null)

\* tools/aggregate.py
\* The fields of the static schema registry, per collection.
SchemaFields(coll) == IF coll = "leads" THEN {"maxBudget", "sourceType"} ELSE {}

\* str.lower() and str.replace("_", "") on the field names of the model.
LowerName(n) ==
    CASE n = "maxBudget"  -> "maxbudget"
      [] n = "sourceType" -> "sourcetype"
      [] n = "SUM"        -> "sum"
      [] n = "DESC"       -> "desc"
      [] OTHER            -> n
DropUnderscores(n) ==
    CASE n = "max_budget"  -> "maxbudget"
      [] n = "source_type" -> "sourcetype"
      [] OTHER             -> n

normalize_field_name(input_name, collection) ==
    LET key     == DropUnderscores(LowerName(input_name))
        matches == {f \in SchemaFields(collection) : LowerName(f) = key}
    IN  IF matches # {} THEN CHOOSE f \in matches : TRUE ELSE input_name

StatOps == {"avg", "sum", "min", "max"}
DollarOp(op) ==
    CASE op = "avg" -> "$avg" [] op = "sum" -> "$sum"
      [] op = "min" -> "$min" [] OTHER -> "$max"

\* The names a groupBy argument lists (a string or a list of strings).
GroupFields(g, coll) ==
    IF IsStr(g) THEN <<normalize_field_name(g.s[1], coll)>>
    ELSE [i \in 1..Len(g.items) |-> normalize_field_name(g.items[i].v.s[1], coll)]

GroupKey(gf) ==
    IF Len(gf) = 1 THEN Str(<<gf[1]>>)
    ELSE Dict([i \in 1..Len(gf) |-> KV(gf[i], Str(<<"$", gf[i]>>))])

IdPaths(gf) == [i \in 1..Len(gf) |-> KV(gf[i], Str(<<"$", "_id", ".", gf[i]>>))]

\* Stage 0 of execute, lines 92-97: the tenant is written over the
\* filter's "company" whatever the collection.
AggregateMatchStage(filt, tenant) ==
    LET base_filter == DictSet(IF Truthy(filt) THEN filt ELSE EmptyDict,
                               "company", Oid(tenant))
    IN  Dict(<<KV("$match", _inject_case_insensitive(_convert_iso_dates(base_filter)))>>)

\* Stages of the modes 2-6 of execute, lines 99-163 ("bad_op": unsupported statOp).
ModeStages(a, scopedPipeline, gf, sf, op) ==
        IF scopedPipeline # <<>> THEN _sanitize_pipeline_keys(scopedPipeline)
        ELSE IF Truthy(a.groupBy) /\ Truthy(a.statField) /\ Truthy(a.statOp) THEN
          <<Dict(<<KV("$group", Dict(<<KV("_id", GroupKey(gf)),
                     KV("stat", Dict(<<KV(DollarOp(op), Str(<<"$", sf>>))>>))>>))>>),
            Dict(<<KV("$project",
                     Dict(<<KV("_id", Num("0")), KV("stat", Num("1"))>> \o
                          (IF Len(gf) = 1 THEN <<KV("group", Str(<<"$", "_id">>))>>
                           ELSE IdPaths(gf))))>>)>>
        ELSE IF Truthy(a.statField) /\ Truthy(a.statOp) THEN
          <<Dict(<<KV("$group", Dict(<<KV("_id", Null),
                     KV("result", Dict(<<KV(DollarOp(op), Str(<<"$", sf>>))>>))>>))>>),
            Dict(<<KV("$project", Dict(<<KV("_id", Num("0")), KV("result", Num("1"))>>))>>)>>
        ELSE IF Truthy(a.groupBy) THEN
          <<Dict(<<KV("$facet", Dict(<<
              KV("total", ListOf(<<Dict(<<KV("$count", Str(<<"total">>))>>)>>)),
              KV("byGroup", ListOf(<<
                 Dict(<<KV("$group", Dict(<<KV("_id", GroupKey(gf)),
                          KV("count", Dict(<<KV("$sum", Num("1"))>>))>>))>>),
                 Dict(<<KV("$project",
                          Dict((IF Len(gf) = 1 THEN <<KV("field", Str(<<"$", "_id">>))>>
                                ELSE IdPaths(gf))
                               \o <<KV("count", Num("1")), KV("_id", Num("0"))>>))>>)>>))>>))>>)>>
        ELSE <<Dict(<<KV("$count", Str(<<"count">>))>>)>>

AggregateModeStages(a, scopedPipeline) ==
    ModeStages(a, scopedPipeline,
               GroupFields(a.groupBy, a.collection),
               normalize_field_name(a.statField.s[1], a.collection),
               LowerName(a.statOp.s[1]))

BadStatOp(a, scopedPipeline) ==
    /\ scopedPipeline = <<>>
    /\ Truthy(a.statField) /\ Truthy(a.statOp)
    /\ LowerName(a.statOp.s[1]) \notin StatOps

\* The limit argument's default.
DefaultLimit == "100"

\* execute, lines 165-185: sort, limit, key sanitising and the call.
AggregateRun(a, body, is_facet) ==
    Exec("none", NoMsg,
         <<Op("aggregate", a.collection,
              ListOf(_sanitize_pipeline_keys(
                  body
                  \o (IF Truthy(a.sortBy) /\ ~is_facet
                      THEN <<Dict(<<KV("$sort",
                               Dict(<<KV(normalize_field_name(a.sortBy.s[1], a.collection),
                                         Num("-1"))>>))>>)>>
                      ELSE <<>>)
                  \o (IF ~is_facet
                      THEN <<Dict(<<KV("$limit", Num(DefaultLimit))>>)>> ELSE <<>>))))>>,
         Dict(<<KV("result", List(<<>>))>>))

AggregateBody(a, body) ==
    AggregateRun(a, body, \E i \in 1..Len(body) : HasKey(body[i], "$facet"))

AggregateExecute(a, filt, scopedPipeline, tenant) ==
    IF BadStatOp(a, scopedPipeline)
    THEN Exec("ToolException", Msg("unsupported_statOp", a.collection, <<>>), <<>>, Null)
    ELSE AggregateBody(a, <<AggregateMatchStage(filt, tenant)>>
                          \o AggregateModeStages(a, scopedPipeline))

\* tools/search.py
SEARCH_STATIC_COLLECTIONS ==
    <<"companies", "brokers", "broker-payments", "contractors",
      "contractor-payments", "general-expenses", "lands", "projects",
      "properties", "property-bookings", "property-payments", "rent-payments",
      "tenants", "leads", "lead-assignments", "lead-rotations",
      "lead-visited-properties", "lead-notes", "amenities", "cold-leads">>

\* re.split(r"\s+", term) without the empty pieces: the chunks between blanks.
RECURSIVE Tokens(_)
Tokens(cs) ==
    IF cs = <<>> THEN <<>>
    ELSE IF Head(cs) = " " THEN Tokens(Tail(cs))
    ELSE <<Head(cs)>> \o Tokens(Tail(cs))

TextQuery(tenant, search) ==
    Dict(<<KV("company", Oid(tenant)),
           KV("$text", Dict(<<KV("$search", Str(search))>>))>>)

\* _ensure_text_index: read the index list, create the wildcard text index
\* when the collection has none.
EnsureIndexOps(coll, idx) ==
    <<Op("index_information", coll, Null)>> \o
    (IF coll \in idx THEN <<>> ELSE <<Op("create_index", coll, Str(<<"$**">>))>>)

\* The queries on one collection when the first hit comes at `level`
\* (1 phrase, 2 free text, 3 first token, 4 full scan or no hit at all).
SearchQueries(coll, tenant, term, level) ==
    LET tokens == Tokens(term)
        phrase == <<Op("find", coll, TextQuery(tenant, <<"\"">> \o term \o <<"\"">>))>>
        free   == <<Op("find", coll, TextQuery(tenant, term))>>
        first  == IF tokens = <<>> THEN <<>>
                  ELSE <<Op("find", coll, TextQuery(tenant, <<tokens[1]>>))>>
        every  == [i \in 1..Len(tokens) |-> Op("find", coll, TextQuery(tenant, <<tokens[i]>>))]
        scan   == <<Op("find", coll, Dict(<<KV("company", Oid(tenant))>>))>>
    IN  CASE level = 1 -> phrase
          [] level = 2 -> phrase \o free
          [] level = 3 /\ tokens # <<>> -> phrase \o free \o first
          [] OTHER -> phrase \o free \o every \o scan

RECURSIVE SearchOps(_, _, _, _, _)
SearchOps(colls, idx, tenant, term, level) ==
    IF colls = <<>> THEN <<>>
    ELSE EnsureIndexOps(Head(colls), idx)
           \o SearchQueries(Head(colls), tenant, term, level)
           \o SearchOps(Tail(colls), idx, tenant, term, level)

\* term.strip() on the terms of the model: blanks at both ends go.
RECURSIVE StripLeft(_)
StripLeft(cs) == IF cs # <<>> /\ Head(cs) = " " THEN StripLeft(Tail(cs)) ELSE cs
RECURSIVE StripRight(_)
StripRight(cs) ==
    IF cs # <<>> /\ cs[Len(cs)] = " " THEN StripRight(SubSeq(cs, 1, Len(cs) - 1)) ELSE cs

SearchExecute(term, tenant, idx, level) ==
    Exec("none", NoMsg,
         SearchOps(SEARCH_STATIC_COLLECTIONS, idx, tenant, StripRight(StripLeft(term)), level),
         Dict(<<KV("results", List(<<>>))>>))

\* The text indexes after the operations: create_index adds one.
IndexesAfter(idx, ops) ==
    idx \cup {ops[i].coll : i \in {j \in 1..Len(ops) : ops[j].op = "create_index"}}

----------------------------------------------------------------------------
(* tools/tool_base.py : ToolBase.run, and RpcServer._call_tool around it.  *)

\* A call of Telemetry.record.
Rec(command, success, arguments) ==
    [command |-> command, success |-> success, arguments |-> arguments]

\* validated.dict(): the arguments as recorded after the call.
ArgsDict(tool, a, filt, pipe) ==
    CASE tool \in {"count", "find"} ->
           Dict(<<KV("collection", IF a.collection = NoColl THEN Null ELSE Str(<<a.collection>>)),
                  KV("filter", filt)>>)
      [] tool = "aggregate" ->
           Dict(<<KV("collection", Str(<<a.collection>>)),
                  KV("pipeline", ListOf(pipe)),
                  KV("filter", filt)>>)
      [] tool = "collection_schema" ->
           Dict(<<KV("collection", Str(<<a.collection>>)), KV("maxValues", Num("10"))>>)
      [] tool = "search" -> Dict(<<KV("term", a.term)>>)
      [] OTHER -> Dict(<<KV("database", Str(<<"test">>))>>)

\* lc_tool.run({}).get("collections", []) of the allow-list gate: the run of
\* list_collections inside the gate, and the list read from its result.
GateWhitelist ==
    LET res == ListCollectionsExecute.result
    IN  IF HasKey(res, "collections")
        THEN PipelineSeq(Get(res, "collections")) ELSE <<>>

InList(x, list) == \E i \in 1..Len(list) : list[i] = x

\* The gate as it would be if it sat inside the filter-scoping branch.
DisallowedFilterToolsOnly(tool, a, allowed) ==
    /\ HasFilterField(tool)
    /\ a.collection # NoColl
    /\ allowed # <<>>
    /\ ~InList(a.collection, allowed)

\* run, lines 90-106: the request is for a collection outside the allow-list.
Disallowed(tool, a, allowed) ==
    /\ HasCollectionField(tool)
    /\ a.collection # NoColl
    /\ allowed # <<>>
    /\ ~InList(a.collection, allowed)

Run(exc, msg, executed, ops, result, filt, pipe, records) ==
    [filter |-> filt, pipeline |-> pipe, exc |-> exc, msg |-> msg, ops |-> ops,
     result |-> result, executed |-> executed, records |-> records]

\* impl(validated): the dispatch to the tool's execute.
Execute(tool, a, filt, pipe, tenant, allowed, idx, env) ==
    CASE tool = "list_collections"  -> ListCollectionsExecute
      [] tool = "collection_schema" -> CollectionSchemaExecute(a)
      [] tool = "count"             -> CountExecute(a, filt, env.dbError)
      [] tool = "find"              ->
           FindExecute(a, filt, allowed, env.dbColls, env.hits, env.stopAfterFirst,
                       env.dbError)
      [] tool = "aggregate"         -> AggregateExecute(a, filt, pipe, tenant)
      [] OTHER                      -> SearchExecute(a.term.s, tenant, idx, env.level)

\* run, lines 90-148: the allow-list gate, the dispatch and the telemetry
\* record, given the scoped filter and pipeline, the filter as execute left
\* it (`after`: aggregate writes the tenant into the dict it was handed) and
\* the outcome e of execute.
RunOutcome(tool, a, allowed, filt, pipe, after, e) ==
    IF Disallowed(tool, a, allowed) THEN
        Run("ToolException",
            IF GateWhitelist = <<>>
            THEN Msg("no_collections_allowed", "", <<>>)
            ELSE Msg("not_in_allowed_list", a.collection, GateWhitelist),
            FALSE, ListCollectionsExecute.ops, Null, filt, pipe,
            <<Rec("list_collections", TRUE,
                  ArgsDict("list_collections", a, Null, <<>>))>>)
    ELSE IF e.exc = "none" THEN
        Run("none", NoMsg, TRUE, e.ops, e.result, filt, pipe,
            <<Rec(tool, TRUE, ArgsDict(tool, a, after, pipe))>>)
    ELSE IF e.exc = "ToolException" THEN
        Run("ToolException", e.msg, TRUE, e.ops, Null, filt, pipe,
            <<Rec(tool, FALSE, ArgsDict(tool, a, after, pipe))>>)
    ELSE
        Run("ToolException", Msg("internal_error", tool, <<>>), TRUE, e.ops, Null,
            filt, pipe,
            <<Rec(tool, FALSE, Dict(<<KV("error", Str(<<e.exc>>))>>))>>)

\* run from the gate on, given the scoped filter and pipeline.
RunScoped(tool, a, tenant, allowed, idx, env, filt, pipe) ==
    RunOutcome(tool, a, allowed, filt, pipe,
               IF tool = "aggregate" /\ Truthy(filt)
               THEN DictSet(filt, "company", Oid(tenant)) ELSE filt,
               Execute(tool, a, filt, pipe, tenant, allowed, idx, env))

\* run, lines 43-88: validation and tenant scoping, then the rest.
ToolBaseRun(tool, a, tenant, allowed, nonTenant, idx, env) ==
    IF ~ValidArgs(tool, a) THEN
        Run("ToolException", Msg("invalid_arguments", "", <<>>), FALSE, <<>>, Null,
            Null, <<>>, <<>>)
    ELSE IF HasFilterField(tool) /\ HasCollectionField(tool)
            /\ FilterScopeRaises(a, nonTenant) THEN
        Run("HTTPException", Msg("collection_name must be a string", "", <<>>),
            FALSE, <<>>, Null, Null, <<>>, <<>>)
    ELSE RunScoped(tool, a, tenant, allowed, idx, env,
                   IF HasFilterField(tool) /\ HasCollectionField(tool)
                   THEN ScopedFilter(a, tenant, nonTenant) ELSE Null,
                   IF HasPipelineField(tool)
                   THEN ScopedPipeline(a, tenant, nonTenant) ELSE <<>>)

\* RpcServer._call_tool: run, then one more record without arguments.
WithRpcRecord(tool, r) ==
    [r EXCEPT !.records = Append(r.records, Rec(tool, r.exc = "none", Null))]

_call_tool(tool, a, tenant, allowed, nonTenant, idx, env) ==
    WithRpcRecord(tool, ToolBaseRun(tool, a, tenant, allowed, nonTenant, idx, env))

----------------------------------------------------------------------------
(* src/telemetry.py *)

\* The spellings the case-insensitive pattern _RE accepts as a key.
SensitiveChunks == {"password", "Password", "pwd", "secret", "apiKey", "apikey",
                    "accessToken", "authorization", "clientSecret", "privateKey"}

\* \s* from position i: the first position that holds no blank.
RECURSIVE SkipBlanks(_, _)
SkipBlanks(cs, i) == IF i <= Len(cs) /\ cs[i] = " " THEN SkipBlanks(cs, i + 1) ELSE i

\* [^"]+ from position i: the position of the next quote.
RECURSIVE NextQuote(_, _)
NextQuote(cs, i) == IF i <= Len(cs) /\ cs[i] # "\"" THEN NextQuote(cs, i + 1) ELSE i

\* _RE matched at the head of cs: "key" \s* : \s* "value".  Yields the
\* positions of the value's opening and closing quote, or <<0, 0>>.
MatchHead(cs) ==
    IF Len(cs) >= 3 /\ cs[1] = "\"" /\ cs[2] \in SensitiveChunks /\ cs[3] = "\""
    THEN LET j == SkipBlanks(cs, 4)
             k == SkipBlanks(cs, j + 1)
             m == NextQuote(cs, k + 1)
         IN  IF /\ j <= Len(cs) /\ cs[j] = ":"
                /\ k <= Len(cs) /\ cs[k] = "\""
                /\ m <= Len(cs) /\ m > k + 1
             THEN <<k, m>> ELSE <<0, 0>>
    ELSE <<0, 0>>

\* _RE.sub(r'\1"<REDACTED>"', v)
RECURSIVE RedactString(_)
RedactString(cs) ==
    IF cs = <<>> THEN <<>>
    ELSE LET km == MatchHead(cs)
         IN  IF km[1] > 0
             THEN SubSeq(cs, 1, km[1] - 1) \o <<"\"", "<REDACTED>", "\"">>
                    \o RedactString(SubSeq(cs, km[2] + 1, Len(cs)))
             ELSE <<Head(cs)>> \o RedactString(Tail(cs))

RECURSIVE redact_val(_)
redact_val(v) ==
    CASE IsStr(v)  -> Str(RedactString(v.s))
      [] IsDict(v) -> Dict([i \in 1..Len(v.items) |->
                             KV(v.items[i].k, redact_val(v.items[i].v))])
      [] IsList(v) -> List([i \in 1..Len(v.items) |-> KV("", redact_val(v.items[i].v))])
      [] OTHER     -> v

_redact_dict(d) == redact_val(d)

\* The event record() builds, lines 88-103 (duration and timestamp left out).
Event(command, success, arguments) ==
    [command   |-> command,
     success   |-> success,
     arguments |-> IF Truthy(arguments) THEN _redact_dict(arguments) ELSE Null,
     metadata  |-> command = "server_start"]

\* The buffer is a sequence of [idx, ev] in insertion order, which is also
\* the LRU order: no entry is read before the flush that clears them all.
Entry(idx, ev) == [idx |-> idx, ev |-> ev]
Idxs(c) == {c[i].idx : i \in 1..Len(c)}
MinOf(S) == CHOOSE x \in S : \A y \in S : x <= y
MaxOf(S) == CHOOSE x \in S : \A y \in S : x >= y
WithoutIdx(c, idx) == SelectSeq(c, LAMBDA e : e.idx # idx)

\* LRUCache.__setitem__ for a new key: evict least recently used entries
\* while the cache is full, then insert.
RECURSIVE LruSet(_, _, _, _)
LruSet(c, idx, ev, maxsize) ==
    IF Len(c) + 1 > maxsize /\ c # <<>>
    THEN LruSet(Tail(c), idx, ev, maxsize)
    ELSE Append(c, Entry(idx, ev))

\* oldest = min(self._cache.keys())
OldestNewest(c) == MaxOf(Idxs(c))
Oldest(c) == MinOf(Idxs(c))

\* The critical section of record(), lines 105-113.
RecordLocked(c, idx, ev, maxsize) ==
    LET room == IF Len(c) >= maxsize THEN WithoutIdx(c, Oldest(c)) ELSE c
    IN  LruSet(room, idx, ev, maxsize)

\* The index record() logs as dropped, line 109.
DroppedBy(c, maxsize) == IF Len(c) >= maxsize THEN {Oldest(c)} ELSE {}

----------------------------------------------------------------------------
(* State *)

VARIABLES
    allowed,      \* config.allowed_collections as a sequence; <<>> when None
    nonTenant,    \* config.non_tenant_collections
    tenantId,     \* session.current_company_id ("" before the first request)
    indexes,      \* the collections of the database that have a text index
    last,         \* the latest tool invocation and what it did
    telEnabled,   \* Telemetry.enabled
    cache,        \* Telemetry._cache
    nextIdx,      \* Telemetry._next_idx
    dropped,      \* the indices record() logged as dropped
    lock,         \* holder of Telemetry._lock, "" when free
    tpc,          \* per caller thread: where it is inside record()
    tev,          \* per caller thread: the event it is about to insert
    fpc,          \* where the flush worker is inside flush()
    batch,        \* the events the flush worker took from the buffer
    attempt,      \* the POST attempt the flush worker is at
    resp,         \* the outcome of the POST the flush worker just made, "" otherwise
    flushed,      \* the indices flush() took into its batches, in the order taken
    history,      \* HISTORY_STORE: per company id, the deque of turns
    turn,         \* per request slot: the state of one _run_chat
    turnSeq,      \* number of requests accepted so far
    running,      \* the request the event loop is executing, "" between awaits
    conversation_contexts,  \* lite_llm.conversation_contexts: per key, the routed queries
    routerClient,           \* lite_llm._client is set (OPENAI_API_KEY was in the environment)
    rpcPc,        \* RpcServer.serve: at read_message, inside _handle, or closed
    rpcReq,       \* the request serve read last
    rpcRead,      \* the ids of the requests read from the transport, in order
    rpcWritten,   \* the messages written to the transport, in order
    capabilities,           \* RpcServer.capabilities
    log_subscribers,        \* RpcServer.log_subscribers
    stream_subscribers,     \* RpcServer.stream_subscribers
    interrupt_subscribers,  \* RpcServer.interrupt_subscribers
    mongoOpen,    \* session.mongo is connected and has not been closed
    exitFlushed,  \* telemetry.flush() was called on the way out of the process
    filterArg,    \* the filter a caller passes to a tool
    injected,     \* what _inject_case_insensitive made of it
    unwrapped     \* what find's _unwrap_ci_regex made of the injected filter

toolVars == <<allowed, nonTenant, tenantId, indexes, last>>
telVars  == <<telEnabled, cache, nextIdx, dropped, lock, tpc, tev, fpc, batch, attempt,
              resp, flushed>>
chatVars == <<history, turn, turnSeq, running, conversation_contexts, routerClient>>
rpcVars  == <<rpcPc, rpcReq, rpcRead, rpcWritten, capabilities, log_subscribers,
              stream_subscribers, interrupt_subscribers, mongoOpen, exitFlushed>>
pureVars == <<filterArg, injected, unwrapped>>
vars     == <<allowed, nonTenant, tenantId, indexes, last,
              telEnabled, cache, nextIdx, dropped, lock, tpc, tev, fpc, batch, attempt,
              resp, flushed,
              history, turn, turnSeq, running, conversation_contexts, routerClient,
              rpcPc, rpcReq, rpcRead, rpcWritten, capabilities, log_subscribers,
              stream_subscribers, interrupt_subscribers, mongoOpen, exitFlushed,
              filterArg, injected, unwrapped>>

----------------------------------------------------------------------------
(* Bounds and inputs *)

Tenants  == {"A", "B"}
Threads  == {"t1", "t2"}
Slots    == {"r1", "r2"}

TelemetryCacheSize == 2   \* config.telemetry_cache_size of the model
MaxEvents          == 4   \* record() calls accepted in one behaviour
MaxTurns           == 2   \* chat requests accepted in one behaviour

AllowedConfigs   == {<<>>, <<"leads", "plans">>}
NonTenantConfigs == {{"plans", "countries"}}
IndexConfigs     == {{"leads"}}
DbCollections    == <<"leads", "companies", "plans", "brokers">>

IsoDay == <<"2024", "-", "01", "-", "01">>

F_status   == Dict(<<KV("status", Str(<<"Converted">>))>>)
F_companyB == Dict(<<KV("company", Oid("B"))>>)
F_idB      == Dict(<<KV("_id", Oid("B"))>>)
F_exists   == Dict(<<KV("company", Dict(<<KV("$exists", Bool(TRUE))>>))>>)
F_padded   == Dict(<<KV(" company", Dict(<<KV("$exists", Bool(TRUE))>>))>>)
F_password == Dict(<<KV("password", Str(<<"hunter2">>))>>)
F_andDate  == Dict(<<KV("$and", ListOf(<<Dict(<<KV("createdAt", Str(IsoDay))>>)>>))>>)
F_anchored == Dict(<<KV("$or", ListOf(<<Dict(<<KV("name",
                  Dict(<<KV("$regex", Str(<<"^", "abc", "$">>)),
                         KV("$options", Str(<<"i">>))>>))>>)>>))>>)

P_matchCount == ListOf(<<Dict(<<KV("$match", F_status)>>),
                         Dict(<<KV("$count", Str(<<"n">>))>>)>>)
P_matchB     == ListOf(<<Dict(<<KV("$match", F_companyB)>>)>>)
P_padded     == ListOf(<<Dict(<<KV(" $group", Dict(<<KV("_id", Null)>>))>>)>>)

G_source == Str(<<"source_type">>)
G_two    == ListOf(<<Str(<<"sourceType">>), Str(<<"city">>)>>)
S_budget == Str(<<"max_budget">>)

CountInputs ==
    { MkArgs(c, f, Null, Null, Null, Null, Null, Null) :
        c \in {"leads", "companies", "plans", "brokers"},
        f \in {EmptyDict, F_status, F_companyB, F_idB, F_password} }
    \cup { MkArgs(NoColl, EmptyDict, Null, Null, Null, Null, Null, Null),
           MkArgs("leads", Null, Null, Null, Null, Null, Null, Null) }

FindInputs ==
    { MkArgs(c, f, Null, Null, Null, Null, Null, Null) :
        c \in {"leads", "plans", "brokers"},
        f \in {EmptyDict, F_status, F_exists, F_andDate, F_anchored} }
    \cup { MkArgs(NoColl, EmptyDict, Null, Null, Null, Null, Null, Null) }

\* filter, pipeline, groupBy, statField, statOp, sortBy of an aggregate call.
AggregateShapes ==
    { <<Null,       Null,         G_source, Null,     Null,             Null>>,
      <<EmptyDict,  P_matchCount, Null,     Null,     Null,             Null>>,
      <<F_status,   Null,         G_source, S_budget, Str(<<"SUM">>),   Str(<<"maxbudget">>)>>,
      <<F_padded,   Null,         G_source, Null,     Null,             Null>>,
      <<F_companyB, P_matchB,     Null,     Null,     Null,             Null>>,
      <<F_andDate,  Null,         Null,     S_budget, Str(<<"max">>),   Null>>,
      <<Null,       P_padded,     Null,     Null,     Null,             Null>>,
      <<Null,       Null,         Null,     S_budget, Str(<<"median">>), Null>>,
      <<Null,       Null,         Null,     Null,     Null,             Null>>,
      <<F_status,   Null,         G_two,    S_budget, Str(<<"avg">>),   Null>> }

AggregateInputs ==
    { MkArgs(c, m[1], m[2], m[3], m[4], m[5], m[6], Null) :
        c \in {"leads", "plans", "companies"}, m \in AggregateShapes }
    \cup { MkArgs("brokers", Null, Null, G_source, Null, Null, Null, Null) }

T_name   == Str(<<"Sonu", " ", "Sharma">>)
T_padded == Str(<<" ", "Sonu">>)
SearchInputs == {<<T_name, 1>>, <<T_name, 2>>, <<T_name, 3>>, <<T_name, 4>>, <<T_padded, 4>>}

\* What the environment contributes to one call: the search level at which
\* the database first answers with hits, the collections whose find yields
\* documents, the stopAfterFirst argument, and the database's collections.
Env0 == [dbError |-> "none", hits |-> {}, stopAfterFirst |-> TRUE,
         dbColls |-> DbCollections, level |-> 4]

\* The exceptions a query may raise: none, pymongo's OperationFailure, any other.
DbErrors == {"none", "OperationFailure", "RuntimeError"}

NoArgs == MkArgs(NoColl, Null, Null, Null, Null, Null, Null, Null)

NoCall ==
    [filter |-> Null, pipeline |-> <<>>, tool |-> "", tenant |-> "", exc |-> "none",
     msg |-> NoMsg, ops |-> <<>>, result |-> Null, dbError |-> "none", executed |-> FALSE,
     records |-> <<>>, args |-> NoArgs, status |-> ""]

----------------------------------------------------------------------------
(* Tool invocations: utils/app_utils.call_tool sets the session's tenant   *)
(* and calls the tool through RpcServer._call_tool.                        *)

\* record() called from the invoking thread, one call after the other.
RECURSIVE RecordAll(_, _, _, _)
RecordAll(c, idx, drops, records) ==
    IF records = <<>> THEN <<c, idx, drops>>
    ELSE RecordAll(RecordLocked(c, idx,
                                Event(Head(records).command, Head(records).success,
                                      Head(records).arguments),
                                TelemetryCacheSize),
                   idx + 1, drops \cup DroppedBy(c, TelemetryCacheSize), Tail(records))

\* ObjectId(cid) of the tenant setter, session.py lines 23-33: raises
\* ValueError for an id that is no 24-hex string.
InvalidCompanyIds == {"not-an-object-id"}
CompanyIds == Tenants \cup InvalidCompanyIds
ValidObjectId(cid) == cid \notin InvalidCompanyIds

\* call_tool, lines 122-131: a string _id of a find filter becomes an
\* ObjectId when it parses as one.
FindIdConverted(tool, a) ==
    IF /\ tool = "find" /\ IsDict(a.filter) /\ HasKey(a.filter, "_id")
       /\ IsStr(Get(a.filter, "_id"))
       /\ Len(Get(a.filter, "_id").s) = 1
       /\ ValidObjectId(Get(a.filter, "_id").s[1])
    THEN [a EXCEPT !.filter = DictSet(a.filter, "_id", Oid(Get(a.filter, "_id").s[1]))]
    ELSE a

\* call_tool, lines 138-145: a ToolException becomes HTTPException 400, any
\* other exception HTTPException 500.
HttpStatus(exc) ==
    IF exc = "none" THEN "ok" ELSE IF exc = "ToolException" THEN "http400" ELSE "http500"

\* call_tool, lines 116-120: the setter raised, the tool is not called.
CallToolBadCompany(tool, a, company) ==
    /\ last' = [NoCall EXCEPT !.tool = tool, !.tenant = company, !.exc = "ValueError",
                              !.args = a, !.status = HttpStatus("ValueError")]
    /\ UNCHANGED <<allowed, nonTenant, tenantId, indexes>>
    /\ UNCHANGED <<telVars, chatVars, rpcVars, pureVars>>

CallToolRun(tool, a, company, env) ==
    \E r \in {_call_tool(tool, FindIdConverted(tool, a), company, allowed, nonTenant,
                         indexes, env)} :
        /\ lock = ""
        /\ telEnabled => nextIdx + Len(r.records) <= MaxEvents
        /\ tenantId' = company
        /\ last' = [filter |-> r.filter, pipeline |-> r.pipeline, tool |-> tool,
                    tenant |-> company, exc |-> r.exc, msg |-> r.msg, ops |-> r.ops,
                    result |-> r.result,
                    dbError |-> IF r.executed THEN env.dbError ELSE "none",
                    executed |-> r.executed,
                    records |-> r.records, args |-> a, status |-> HttpStatus(r.exc)]
        /\ indexes' = IndexesAfter(indexes, r.ops)
        /\ IF telEnabled
           THEN \E after \in {RecordAll(cache, nextIdx, dropped, r.records)} :
                   cache' = after[1] /\ nextIdx' = after[2] /\ dropped' = after[3]
           ELSE UNCHANGED <<cache, nextIdx, dropped>>
        /\ UNCHANGED <<allowed, nonTenant, telEnabled, lock, tpc, tev, fpc, batch, attempt, resp, flushed>>
        /\ UNCHANGED <<chatVars, rpcVars, pureVars>>

CallTool(tool, a, company, env) ==
    IF ValidObjectId(company)
    THEN CallToolRun(tool, a, company, env)
    ELSE CallToolBadCompany(tool, a, company)

CallListCollections ==
    \E company \in CompanyIds : CallTool("list_collections", NoArgs, company, Env0)

CallCollectionSchema ==
    \E company \in CompanyIds, coll \in {"leads", "brokers", "countries"} :
        CallTool("collection_schema",
                 MkArgs(coll, Null, Null, Null, Null, Null, Null, Null), company, Env0)

CallCount ==
    \E company \in CompanyIds, a \in CountInputs, err \in DbErrors :
        /\ err # "none" => a.filter = EmptyDict
        /\ CallTool("count", a, company, [Env0 EXCEPT !.dbError = err])

CallFind ==
    \E company \in CompanyIds, a \in FindInputs, hits \in {{}, {"leads"}}, stop \in BOOLEAN,
       err \in DbErrors :
        /\ a.collection # NoColl => (hits = {} /\ stop)
        /\ err # "none" => (a.filter = EmptyDict /\ a.collection # NoColl)
        /\ CallTool("find", a, company,
                    [Env0 EXCEPT !.dbError = err, !.hits = hits, !.stopAfterFirst = stop])

CallAggregate ==
    \E company \in CompanyIds, a \in AggregateInputs : CallTool("aggregate", a, company, Env0)

CallSearch ==
    \E company \in CompanyIds, in \in SearchInputs :
        CallTool("search", MkArgs(NoColl, Null, Null, Null, Null, Null, Null, in[1]),
                 company, [Env0 EXCEPT !.level = in[2]])

\* No event is being built: the local `event` of record() exists from its
\* construction (lines 85-103) to the return.
NoEvent == Event("", TRUE, Null)

InitTel(enabled) ==
    /\ telEnabled = enabled
    /\ cache = <<>>
    /\ nextIdx = 0
    /\ dropped = {}
    /\ lock = ""
    /\ tpc = [t \in Threads |-> "idle"]
    /\ tev = [t \in Threads |-> NoEvent]
    /\ fpc = "idle"
    /\ batch = <<>>
    /\ attempt = 0
    /\ resp = ""
    /\ flushed = <<>>

\* The key chat() hands to light_llm: it passes the query only (app.py line
\* 58), so company_id takes its default (lite_llm.py line 40).
RouterKey   == "default"
ContextKeys == Tenants \cup {RouterKey}

IdleTurn == [company |-> "", pc |-> "idle", query |-> 0, found |-> FALSE,
             retries |-> 0, hist |-> <<>>, call |-> "",
             withColl |-> FALSE, empty |-> FALSE, reply |-> "", emptyFinds |-> 0,
             gotData |-> FALSE, prefetched |-> <<>>]

InitChatWith(h, client) ==
    /\ history = h
    /\ turn = [r \in Slots |-> IdleTurn]
    /\ turnSeq = 0
    /\ running = ""
    /\ conversation_contexts = [k \in ContextKeys |-> <<>>]
    /\ routerClient = client

\* The API key reaches the application through --openaiApiKey and is not in
\* the environment: app.py builds its client from the configuration (lines
\* 260-263) and lite_llm has none (lines 10-13).
InitChatAt(h) == InitChatWith(h, FALSE)

InitChat == InitChatAt([c \in Tenants |-> <<>>])

\* A request object, as _handle reads it: its id, its method and, of its
\* params, the name, the enabled flag and the tool arguments.
NoName == "<missing>"
Request(id, method, name, enabled, args) ==
    [args |-> args, enabled |-> enabled, id |-> id, method |-> method, name |-> name]
NoRequest == Request(0, "", NoName, FALSE, NoArgs)

\* RpcServer.__init__ and the entry of serve.
InitRpc ==
    /\ rpcPc = "read"
    /\ rpcReq = NoRequest
    /\ rpcRead = <<>>
    /\ rpcWritten = <<>>
    /\ capabilities = {}
    /\ log_subscribers = {}
    /\ stream_subscribers = {}
    /\ interrupt_subscribers = {}
    /\ mongoOpen = TRUE
    /\ exitFlushed = FALSE

\* No filter has been passed to a tool yet.
Unset == [t |-> "unset", s |-> <<>>, items |-> <<>>]
InitPureAt(f) ==
    /\ filterArg = f
    /\ injected = Unset
    /\ unwrapped = Unset
InitPure == InitPureAt(Unset)

InitTools ==
    /\ allowed \in AllowedConfigs
    /\ nonTenant \in NonTenantConfigs
    /\ tenantId = ""
    /\ indexes \in IndexConfigs
    /\ last = NoCall

\* The tool layer, with telemetry disabled in the configuration.
Init == InitTools /\ InitTel(FALSE) /\ InitChat /\ InitRpc /\ InitPure

Next ==
    \/ CallListCollections
    \/ CallCollectionSchema
    \/ CallCount
    \/ CallFind
    \/ CallAggregate
    \/ CallSearch

Spec == Init /\ [][Next]_vars

----------------------------------------------------------------------------
(* Properties of the tool layer *)

Scoped(tool)     == tool \in {"count", "find", "aggregate"}
ReadOps          == {"count_documents", "find", "aggregate"}
LastOps          == {last.ops[i] : i \in 1..Len(last.ops)}
LastRan(tool)    == last.tool = tool /\ last.executed /\ last.exc = "none"
AllowListSet     == allowed # <<>>
LastOutsideList  ==
    /\ last.tool \in {"count", "find", "aggregate", "collection_schema"}
    /\ last.args.collection # NoColl
    /\ AllowListSet
    /\ ~InList(last.args.collection, allowed)

\* The predicate a query puts on `key` is equality with the tenant's id.
ConstrainsTo(q, key, tenant) == IsDict(q) /\ HasKey(q, key) /\ Get(q, key) = Oid(tenant)

\* C1: every count or find on a collection outside the non-tenant set sends
\* MongoDB a filter whose `company` (`_id` for companies) equals the
\* session's tenant id, whatever filter the caller supplied.
C1_FilterConstrainsTenant ==
    (last.tool \in {"count", "find"} /\ last.executed
        /\ last.args.collection \notin nonTenant)
    => \A o \in LastOps :
          o.op \in ReadOps =>
             ConstrainsTo(o.q, IF o.coll = "companies" THEN "_id" ELSE "company",
                          last.tenant)

\* C2: stage 0 of every aggregate pipeline executed on a collection outside
\* the non-tenant set is a $match whose predicate has `company` equal to the
\* session's tenant id, whatever filter and pipeline the caller supplied.
Stage0(o) == o.q.items[1].v
C2_Stage0MatchesTenant ==
    (LastRan("aggregate") /\ last.args.collection \notin nonTenant)
    => \A o \in LastOps :
          /\ Len(o.q.items) >= 1
          /\ HasKey(Stage0(o), "$match")
          /\ ConstrainsTo(Get(Stage0(o), "$match"), "company", last.tenant)

\* C3: with an allow-list configured, a count, find, aggregate or
\* collection_schema request that names a collection outside the list fails
\* before execute runs and issues no operation on the database.
C3_DisallowedFailsBeforeIO ==
    LastOutsideList => (last.exc # "none" /\ ~last.executed /\ last.ops = <<>>)

C3_Witness ==
    /\ LastOutsideList
    /\ last.tool = "aggregate"
    /\ last.exc = "ToolException"
    /\ last.args.collection = "companies"

\* C4: with an allow-list configured, no tool invocation (search included)
\* reads or indexes a collection outside the allow-list.
C4_OnlyAllowedTouched ==
    AllowListSet => \A o \in LastOps : o.coll # "" => InList(o.coll, allowed)

\* C5: no tool invocation writes to the database or changes its schema: the
\* text indexes stay as they were and no index is created.
C5_ReadOnly ==
    [][indexes' = indexes /\ \A i \in 1..Len(last'.ops) : last'.ops[i].op # "create_index"]_vars

\* C6: a request for a collection outside the configured allow-list fails
\* with a message that names the rejected collection and lists the allowed
\* collections.
C6_ErrorNamesAllowed ==
    (LastOutsideList /\ last.msg.kind # "invalid_arguments")
    => /\ last.exc = "ToolException"
       /\ last.msg.kind = "not_in_allowed_list"
       /\ last.msg.coll = last.args.collection
       /\ last.msg.list # <<>>

\* C7: on a collection of the non-tenant set, count, find and aggregate add
\* no tenant constraint (`company` or `_id` equal to the tenant id) to the
\* query that reaches MongoDB.
CallerConstrains(key) ==
    /\ IsDict(last.args.filter)
    /\ \E k \in Keys(last.args.filter) :
          StripKey(k) = key /\ Get(last.args.filter, k) = Oid(last.tenant)
QueryPredicate(o) == IF o.op = "aggregate" THEN Get(Stage0(o), "$match") ELSE o.q
C7_NonTenantUnscoped ==
    (Scoped(last.tool) /\ last.executed /\ last.exc = "none"
        /\ last.args.collection \in nonTenant)
    => \A o \in LastOps : \A key \in {"company", "_id"} :
          ConstrainsTo(QueryPredicate(o), key, last.tenant) => CallerConstrains(key)

\* C13: when a query raises an exception no tool anticipates while execute
\* runs, the call is answered with status 500; it is never answered with 400.
C13_UnexpectedIs500 ==
    (last.executed /\ last.dbError = "RuntimeError") => last.status = "http500"

\* C14: a call for a company id that is no ObjectId fails before any tool
\* executes, and is answered with status 400.
C14_InvalidCompanyIs400 ==
    (last.tool # "" /\ ~ValidObjectId(last.tenant))
    => (~last.executed /\ last.ops = <<>> /\ last.status = "http400")

\* C17: a find call that omits the collection succeeds, and the collections
\* it queries are, in order, the first (at most 100) of the whitelist (the
\* allow-list, or the database's collections when none is configured).
FindScanned ==
    LET finds == SelectSeq(last.ops, LAMBDA o : o.op = "find")
    IN  [i \in 1..Len(finds) |-> finds[i].coll]
IsPrefix(p, q) == Len(p) <= Len(q) /\ p = SubSeq(q, 1, Len(p))
C17_FindWithoutCollection ==
    (last.tool = "find" /\ last.args.collection = NoColl /\ ValidObjectId(last.tenant)
        /\ ValidArgs("find", last.args))
    => /\ last.exc = "none"
       /\ FindScanned # <<>>
       /\ Len(FindScanned) <= MAX_COLLECTIONS_SCAN
       /\ IsPrefix(FindScanned, IF allowed # <<>> THEN allowed ELSE DbCollections)

\* C18: an aggregate call with groupBy only (no pipeline, no statField) runs
\* a pipeline holding a $facet stage with the branches total and byGroup.
IsFacetStage(st) ==
    /\ IsDict(st) /\ HasKey(st, "$facet")
    /\ IsDict(Get(st, "$facet"))
    /\ HasKey(Get(st, "$facet"), "total") /\ HasKey(Get(st, "$facet"), "byGroup")
GroupByOnly(a) == Truthy(a.groupBy) /\ ~Truthy(a.pipeline) /\ ~Truthy(a.statField)
C18_GroupByOnlyFacets ==
    (last.tool = "aggregate" /\ last.exc = "none" /\ last.executed
        /\ GroupByOnly(last.args))
    => \A o \in LastOps :
          o.op = "aggregate" => \E i \in 1..Len(o.q.items) : IsFacetStage(o.q.items[i].v)

\* The documents a collection may hold, as far as the queries of the model
\* tell them apart: their _id, their company and a string field.
Doc(id, company, status) ==
    Dict(<<KV("_id", Oid(id)), KV("company", Oid(company)),
           KV("status", Str(<<status>>))>>)
Docs == { Doc("d1", "A", "Converted"), Doc("d2", "A", "converted"),
          Doc("d3", "A", "New"),       Doc("d4", "B", "Converted"),
          Doc("A", "A", "Converted") }

\* Case folding of the string values of the model.
FoldCase(c) == IF c = "Converted" THEN "converted" ELSE c
Fold(cs)    == [i \in 1..Len(cs) |-> FoldCase(cs[i])]

\* The literal a pattern built by re.escape stands for.
RECURSIVE re_literal(_)
re_literal(cs) ==
    IF cs = <<>> THEN <<>>
    ELSE IF Head(cs) = "\\" /\ Len(cs) > 1 THEN <<cs[2]>> \o re_literal(Tail(Tail(cs)))
    ELSE <<Head(cs)>> \o re_literal(Tail(cs))

Contains(text, lit) ==
    \E i \in 0..(Len(text) - Len(lit)) : SubSeq(text, i + 1, i + Len(lit)) = lit

\* {"$regex": pattern, "$options": "i"} on a string value: an unanchored
\* search, case-insensitive under the option i.
RegexSearch(cond, text) ==
    LET lit == re_literal(Get(cond, "$regex").s)
    IN  IF HasKey(cond, "$options") /\ Get(cond, "$options") = Str(<<"i">>)
        THEN Contains(Fold(text), Fold(lit))
        ELSE Contains(text, lit)

\* One field condition of a query on document d.
FieldMatches(cond, d, k) ==
    IF IsDict(cond) /\ HasKey(cond, "$regex")
    THEN HasKey(d, k) /\ IsStr(Get(d, k)) /\ RegexSearch(cond, Get(d, k).s)
    ELSE IF IsDict(cond) /\ HasKey(cond, "$exists")
    THEN HasKey(d, k) <=> Truthy(Get(cond, "$exists"))
    ELSE HasKey(d, k) /\ Get(d, k) = cond

\* Whether document d satisfies the query q that reaches MongoDB.
RECURSIVE Matches(_, _)
Matches(q, d) ==
    \A i \in 1..Len(q.items) :
        LET k == q.items[i].k
            v == q.items[i].v
        IN  CASE k = "$and" -> \A j \in 1..Len(v.items) : Matches(v.items[j].v, d)
              [] k = "$or"  -> \E j \in 1..Len(v.items) : Matches(v.items[j].v, d)
              [] OTHER      -> FieldMatches(v, d, k)

\* Whether document d reaches the $count stage of pipeline p.
PassesMatchStages(p, d) ==
    \A i \in 1..Len(p.items) :
        HasKey(p.items[i].v, "$match") => Matches(Get(p.items[i].v, "$match"), d)

\* A caller pipeline of the form [{$match: F}, {$count: n}].
IsMatchCount(p) ==
    /\ IsList(p) /\ Len(p.items) = 2
    /\ Keys(p.items[1].v) = {"$match"} /\ Keys(p.items[2].v) = {"$count"}

\* The outcome of count(collection, filter = F) for the tenant of the last call.
CountOf(coll, F) ==
    ToolBaseRun("count", MkArgs(coll, F, Null, Null, Null, Null, Null, Null),
                last.tenant, allowed, nonTenant, indexes, Env0)

\* C19: aggregate(collection = C, pipeline = [{$match: F}, {$count: n}])
\* counts exactly the documents count(collection = C, filter = F) counts
\* for the same tenant.
C19_AggregateCountsAsCount ==
    (last.tool = "aggregate" /\ last.exc = "none" /\ last.executed
        /\ ~Truthy(last.args.filter) /\ IsMatchCount(last.args.pipeline))
    => \A c \in {CountOf(last.args.collection,
                          Get(last.args.pipeline.items[1].v, "$match"))} :
          /\ c.exc = "none"
          /\ \A d \in Docs :
                PassesMatchStages(last.ops[1].q, d) <=> Matches(c.ops[1].q, d)

----------------------------------------------------------------------------
(* Telemetry under concurrency: caller threads inside record() and the     *)
(* flush worker inside flush().  `with self._lock` is an acquire step      *)
(* followed by the body, which releases the lock when it ends.             *)

MaxRetries == 3

JsonSecret == Str(<<"{", "\"", "password", "\"", ":", " ", "\"", "s3cret", "\"", "}">>)

\* command and arguments of the record() calls of the model: a call without
\* arguments, the arguments ToolBase.run records for a count whose filter
\* names a password, an error text that quotes a JSON password, and
\* arguments that nest a secret in a list.
RecordInputs ==
    { <<"server_start", Null>>,
      <<"count", ArgsDict("count",
                          MkArgs("leads", Null, Null, Null, Null, Null, Null, Null),
                          ScopedFilter(MkArgs("leads", F_password, Null, Null, Null, Null,
                                              Null, Null), "A", {}), <<>>)>>,
      <<"find", Dict(<<KV("error", JsonSecret)>>)>>,
      <<"aggregate", Dict(<<KV("pipeline",
                               ListOf(<<Dict(<<KV("secret", Num("42"))>>)>>))>>)>> }

Started == nextIdx + Cardinality({t \in Threads : tpc[t] # "idle"})

\* record(), lines 85-103: return at once when disabled, else build the event.
RecordBuild(t, in) ==
    /\ tpc[t] = "idle"
    /\ Started < MaxEvents
    /\ IF telEnabled
       THEN /\ tev' = [tev EXCEPT ![t] = Event(in[1], TRUE, in[2])]
            /\ tpc' = [tpc EXCEPT ![t] = "built"]
       ELSE UNCHANGED <<tev, tpc>>
    /\ UNCHANGED <<telEnabled, cache, nextIdx, dropped, lock, fpc, batch, attempt, resp, flushed>>
    /\ UNCHANGED <<toolVars, chatVars, rpcVars, pureVars>>

\* with self._lock:
RecordAcquire(t) ==
    /\ tpc[t] = "built"
    /\ lock = ""
    /\ lock' = t
    /\ tpc' = [tpc EXCEPT ![t] = "locked"]
    /\ UNCHANGED <<telEnabled, cache, nextIdx, dropped, tev, fpc, batch, attempt, resp, flushed>>
    /\ UNCHANGED <<toolVars, chatVars, rpcVars, pureVars>>

\* lines 106-113: drop the oldest when full, insert, count, release, return.
RecordCommit(t) ==
    /\ tpc[t] = "locked"
    /\ lock = t
    /\ cache' = RecordLocked(cache, nextIdx, tev[t], TelemetryCacheSize)
    /\ nextIdx' = nextIdx + 1
    /\ dropped' = dropped \cup DroppedBy(cache, TelemetryCacheSize)
    /\ lock' = ""
    /\ tpc' = [tpc EXCEPT ![t] = "idle"]
    /\ tev' = [tev EXCEPT ![t] = NoEvent]
    /\ UNCHANGED <<telEnabled, fpc, batch, attempt, resp, flushed>>
    /\ UNCHANGED <<toolVars, chatVars, rpcVars, pureVars>>

\* flush(), line 120: the worker (or a caller of flush) takes the lock.
FlushAcquire ==
    /\ telEnabled
    /\ fpc = "idle"
    /\ lock = ""
    /\ lock' = "flusher"
    /\ fpc' = "locked"
    /\ UNCHANGED <<telEnabled, cache, nextIdx, dropped, tpc, tev, batch, attempt, resp, flushed>>
    /\ UNCHANGED <<toolVars, chatVars, rpcVars, pureVars>>

\* lines 121-126: snapshot, clear, release; nothing to send ends the flush.
FlushTakeNoClear ==
    /\ fpc = "locked"
    /\ lock = "flusher"
    /\ batch' = cache
    /\ cache' = cache
    /\ lock' = ""
    /\ fpc' = IF cache = <<>> THEN "idle" ELSE "serialize"
    /\ attempt' = 0
    /\ flushed' = flushed \o [i \in 1..Len(cache) |-> cache[i].idx]
    /\ UNCHANGED <<telEnabled, nextIdx, dropped, tpc, tev, resp>>
    /\ UNCHANGED <<toolVars, chatVars, rpcVars, pureVars>>
FlushTake ==
    /\ fpc = "locked"
    /\ lock = "flusher"
    /\ batch' = cache
    /\ cache' = <<>>
    /\ lock' = ""
    /\ fpc' = IF cache = <<>> THEN "idle" ELSE "serialize"
    /\ attempt' = 0
    /\ flushed' = flushed \o [i \in 1..Len(cache) |-> cache[i].idx]
    /\ UNCHANGED <<telEnabled, nextIdx, dropped, tpc, tev, resp>>
    /\ UNCHANGED <<toolVars, chatVars, rpcVars, pureVars>>

\* lines 128-132: json_util.dumps; a failure drops the batch.
FlushSerialize(ok) ==
    /\ fpc = "serialize"
    /\ fpc' = IF ok THEN "post" ELSE "idle"
    /\ attempt' = IF ok THEN 1 ELSE 0
    /\ batch' = IF ok THEN batch ELSE <<>>
    /\ UNCHANGED <<telEnabled, cache, nextIdx, dropped, lock, tpc, tev, resp, flushed>>
    /\ UNCHANGED <<toolVars, chatVars, rpcVars, pureVars>>

\* lines 138-146 and 162: one POST attempt, answered or failed on the network.
PostOutcomes == {"2xx", "4xx", "5xx", "network_error"}
FlushPost(outcome) ==
    /\ fpc = "post"
    /\ resp' = outcome
    /\ fpc' = "posted"
    /\ UNCHANGED <<telEnabled, cache, nextIdx, dropped, lock, tpc, tev, batch, attempt,
                   flushed>>
    /\ UNCHANGED <<toolVars, chatVars, rpcVars, pureVars>>

\* lines 148-169: 2xx and 4xx end the flush; a 5xx or a network error sleeps
\* and goes on to the next attempt until max_retries are used, and then the
\* batch is dropped.
FlushAfterPostRetry4xx ==
    /\ fpc = "posted"
    /\ IF resp \in {"2xx"} \/ attempt + 1 > MaxRetries
       THEN fpc' = "idle" /\ batch' = <<>> /\ attempt' = 0
       ELSE fpc' = "post" /\ batch' = batch /\ attempt' = attempt + 1
    /\ resp' = ""
    /\ UNCHANGED <<telEnabled, cache, nextIdx, dropped, lock, tpc, tev, flushed>>
    /\ UNCHANGED <<toolVars, chatVars, rpcVars, pureVars>>
FlushAfterPost ==
    /\ fpc = "posted"
    /\ IF resp \in {"2xx", "4xx"} \/ attempt + 1 > MaxRetries
       THEN fpc' = "idle" /\ batch' = <<>> /\ attempt' = 0
       ELSE fpc' = "post" /\ batch' = batch /\ attempt' = attempt + 1
    /\ resp' = ""
    /\ UNCHANGED <<telEnabled, cache, nextIdx, dropped, lock, tpc, tev, flushed>>
    /\ UNCHANGED <<toolVars, chatVars, rpcVars, pureVars>>

InitTelemetry ==
    /\ allowed = <<>>
    /\ nonTenant \in NonTenantConfigs
    /\ tenantId = ""
    /\ indexes \in IndexConfigs
    /\ last = NoCall
    /\ InitTel(TRUE)
    /\ InitChat
    /\ InitRpc
    /\ InitPure

NextTelemetry ==
    \/ \E t \in Threads, in \in RecordInputs : RecordBuild(t, in)
    \/ \E t \in Threads : RecordAcquire(t)
    \/ \E t \in Threads : RecordCommit(t)
    \/ FlushAcquire
    \/ FlushTake
    \/ \E ok \in BOOLEAN : FlushSerialize(ok)
    \/ \E outcome \in PostOutcomes : FlushPost(outcome)
    \/ FlushAfterPost

SpecTelemetry == InitTelemetry /\ [][NextTelemetry]_vars

----------------------------------------------------------------------------
(* Properties of the telemetry buffer *)

\* C8: under every interleaving of record() and flush() the buffer holds at
\* most its cap of events, and a record() on a full buffer evicts the event
\* with the smallest insertion index and keeps the event it records.
RecordStep(t) == tpc[t] = "locked" /\ tpc'[t] = "idle"
C8_BufferBounded ==
    /\ [](Len(cache) <= TelemetryCacheSize)
    /\ [][\A t \in Threads : RecordStep(t) =>
            /\ cache'[Len(cache')] = Entry(nextIdx, tev[t])
            /\ IF Len(cache) >= TelemetryCacheSize
               THEN /\ Idxs(cache') = (Idxs(cache) \ {MinOf(Idxs(cache))}) \cup {nextIdx}
                    /\ Len(cache') = TelemetryCacheSize
               ELSE Idxs(cache') = Idxs(cache) \cup {nextIdx}]_vars

C8_Witness ==
    /\ dropped # {}
    /\ Len(cache) = TelemetryCacheSize
    /\ \A i \in dropped : \A j \in Idxs(cache) : i < j

\* The indices flush() has taken into a batch.
Taken == {flushed[i] : i \in 1..Len(flushed)}

\* C25: under every interleaving of record() with the flush worker, every
\* recorded event is either evicted by overflow or in exactly one flush
\* batch (none is lost between the snapshot and the clear, none is taken
\* twice), and a batch lists its events in increasing insertion index.
C25_EveryEventOnce ==
    /\ 0..(nextIdx - 1) = dropped \cup Idxs(cache) \cup Taken
    /\ dropped \cap Taken = {}
    /\ Idxs(cache) \cap (dropped \cup Taken) = {}
    /\ \A i, j \in 1..Len(flushed) : i # j => flushed[i] # flushed[j]
    /\ Idxs(batch) \subseteq Taken
    /\ \A i, j \in 1..Len(batch) : i < j => batch[i].idx < batch[j].idx

\* An event was evicted, the worker is sending a batch of two events and a
\* caller thread is inside record() with one more.
C25_Witness ==
    /\ dropped # {}
    /\ Len(batch) = 2
    /\ fpc = "post"
    /\ \E t \in Threads : tpc[t] = "built"

\* A step of the flush worker after it has taken its batch.
SendStep ==
    /\ fpc \in {"serialize", "post", "posted"}
    /\ <<fpc, attempt, resp>>' # <<fpc, attempt, resp>>

\* C26: a flush of a non-empty batch makes at most max_retries POST
\* attempts and none after the first 2xx or 4xx response; whether it ends in
\* success, a 4xx, exhausted retries or a serialization failure, it returns
\* and does not put the batch back into the buffer.
C26_FlushBounded ==
    /\ [](fpc \in {"post", "posted"} => attempt \in 1..MaxRetries)
    /\ [][SendStep =>
            /\ cache' = cache
            /\ fpc' \in {"idle", "post", "posted"}
            /\ fpc' = "idle" => batch' = <<>>
            /\ (fpc = "posted" /\ resp \in {"2xx", "4xx"}) => fpc' = "idle"
            /\ fpc = "serialize" => fpc' \in {"idle", "post"}]_vars

\* The last allowed attempt of a flush was answered with a 5xx.
C26_Witness ==
    /\ fpc = "posted"
    /\ attempt = MaxRetries
    /\ resp = "5xx"
    /\ batch # <<>>

\* C9: no event in the buffer holds the original value of a sensitive key:
\* at every depth of its arguments the value under such a key is <REDACTED>.
SensitiveKeys == {"password", "secret", "apiKey", "accessToken", "authorization",
                  "clientSecret", "privateKey", "certificate", "passphrase"}
RedactedMark == Str(<<"<REDACTED>">>)

RECURSIVE SecretsRedacted(_)
SecretsRedacted(v) ==
    CASE IsDict(v) -> \A i \in 1..Len(v.items) :
                         IF v.items[i].k \in SensitiveKeys
                         THEN v.items[i].v = RedactedMark
                         ELSE SecretsRedacted(v.items[i].v)
      [] IsList(v) -> \A i \in 1..Len(v.items) : SecretsRedacted(v.items[i].v)
      [] OTHER     -> TRUE

C9_BufferRedacted ==
    \A i \in 1..Len(cache) : SecretsRedacted(cache[i].ev.arguments)

----------------------------------------------------------------------------
(* The chat orchestrator: POST /chat and _run_chat.  The handlers are
   coroutines of one event loop, so a request runs without interruption
   from one await to the next: `running` names the request that holds the
   loop.  The awaits are light_llm (line 58) and
   async_replace_ids_with_names (line 186); the LLM and the tools are called
   synchronously. *)

HistoryMaxLen == 10

\* retries = 2, line 140.  A turn's emptyFinds counts, up to this budget, the
\* find results without documents that `messages` holds while found is false.
RetryBudget == 2

HistEntry(role, query, content) ==
    [query |-> query, role |-> role, content |-> content]

\* deque(maxlen=10).append: a full deque discards its leftmost entry
DequeAppendUnbounded(d, x) == Append(d, x)
DequeAppend(d, x) ==
    IF Len(d) >= HistoryMaxLen THEN Append(Tail(d), x) ELSE Append(d, x)

\* what the LLM may answer: a function call (name, with a collection or not)
FunctionCalls == {<<"search", FALSE>>, <<"count", TRUE>>, <<"find", TRUE>>,
                  <<"find", FALSE>>, <<"aggregate", TRUE>>,
                  <<"list_collections", FALSE>>}
NeedsPrefetchNotCount(fc) == fc[1] \in {"find", "aggregate"} /\ fc[2]
NeedsPrefetch(fc) == fc[1] \in {"count", "find", "aggregate"} /\ fc[2]
CanBeEmpty(name) == name \in {"count", "find", "aggregate", "search"}

\* The handler returns or raises: its locals are gone, the response is left.
Finish(r, reply) ==
    [turn EXCEPT ![r] = [IdleTurn EXCEPT !.company = turn[r].company, !.pc = "done",
                                         !.query = turn[r].query,
                                         !.hist = turn[r].hist, !.reply = reply]]

\* conversation_contexts[company_id][-3:] and [-10:], lite_llm.py
ContextWindow == 3
ContextMaxLen == 10
LastOf(s, n) == IF Len(s) > n THEN SubSeq(s, Len(s) - n + 1, Len(s)) ELSE s

get_conversation_context(ctxs, company_id) == LastOf(ctxs[company_id], ContextWindow)

\* An entry holds the query and the type the router gave it.  The code keeps
\* the query's text; the model keeps its number and, to tell whose text it
\* is, the tenant whose request carried it.
update_conversation_context(ctxs, company_id, query, response_type, company) ==
    [ctxs EXCEPT ![company_id] =
        LastOf(Append(@, [company |-> company, query |-> query, type |-> response_type]),
               ContextMaxLen)]

\* The context light_llm puts into the router's prompt (lines 41-47, 77).
RouterPrompt == get_conversation_context(conversation_contexts, RouterKey)

\* a request arrives and awaits the router; it takes the first free slot
FirstSlot == "r1"

ChatStart(r, c) ==
    /\ turn[r].pc = "idle"
    /\ \A other \in Slots : turn[other].pc = "idle" => r = FirstSlot \/ other # FirstSlot
    /\ turnSeq < MaxTurns
    /\ turnSeq' = turnSeq + 1
    /\ turn' = [turn EXCEPT ![r] = [IdleTurn EXCEPT !.company = c, !.pc = "route",
                                                    !.query = turnSeq + 1]]
    /\ UNCHANGED <<history, running, conversation_contexts, routerClient>>
    /\ UNCHANGED <<toolVars, telVars, rpcVars, pureVars>>

\* light_llm answers: chat() lines 58-70, and _run_chat up to its first LLM call
RouteReply(r, route) ==
    /\ turn[r].pc = "route"
    /\ running = ""
    /\ CASE route = "data" ->
              /\ turn' = [turn EXCEPT ![r].pc = "llm",
                                      ![r].hist = history[turn[r].company],
                                      ![r].found = FALSE,
                                      ![r].retries = RetryBudget]
              /\ running' = r
         [] route = "chat" ->
              /\ turn' = Finish(r, "route")
              /\ UNCHANGED running
         [] OTHER ->
              /\ turn' = Finish(r, "http500")
              /\ UNCHANGED running
    /\ \E answered \in BOOLEAN :
          conversation_contexts' =
              IF routerClient /\ answered /\ route \in {"data", "chat"}
              THEN update_conversation_context(conversation_contexts, RouterKey,
                                               turn[r].query, route, turn[r].company)
              ELSE conversation_contexts
    /\ UNCHANGED <<history, turnSeq, routerClient>>
    /\ UNCHANGED <<toolVars, telVars, rpcVars, pureVars>>

\* the LLM asks for a function, lines 143-148
LlmFunctionCall(r, fc) ==
    /\ turn[r].pc = "llm"
    /\ running = r
    /\ turn' = [turn EXCEPT ![r].call = fc[1],
                            ![r].withColl = fc[2],
                            ![r].pc = IF fc[1] = "search" THEN "search"
                                      ELSE IF NeedsPrefetch(fc)
                                           THEN "prefetch_schema"
                                           ELSE "tool"]
    /\ UNCHANGED <<history, turnSeq, running, conversation_contexts, routerClient>>
    /\ UNCHANGED <<toolVars, telVars, rpcVars, pureVars>>

\* the LLM returns a terminal message, lines 200-205
LlmTerminal(r) ==
    /\ turn[r].pc = "llm"
    /\ running = r
    /\ turn' = IF ~turn[r].found /\ turn[r].retries > 0
               THEN [turn EXCEPT ![r].retries = @ - 1]
               ELSE [turn EXCEPT ![r].pc = "summarize"]
    /\ UNCHANGED <<history, turnSeq, running, conversation_contexts, routerClient>>
    /\ UNCHANGED <<toolVars, telVars, rpcVars, pureVars>>

\* the LLM call fails, lines 85-96
LlmError(r) ==
    /\ turn[r].pc = "llm"
    /\ running = r
    /\ turn' = Finish(r, "http502")
    /\ running' = ""
    /\ UNCHANGED <<history, turnSeq, conversation_contexts, routerClient>>
    /\ UNCHANGED <<toolVars, telVars, rpcVars, pureVars>>

\* call_tool sets the session's tenant, app_utils.py line 117
SetTenantOnce(r) ==
    /\ tenantId' = IF tenantId = "" THEN turn[r].company ELSE tenantId
    /\ UNCHANGED <<allowed, nonTenant, indexes, last>>
    /\ UNCHANGED <<telVars, rpcVars, pureVars>>
SetTenant(r) ==
    /\ tenantId' = turn[r].company
    /\ UNCHANGED <<allowed, nonTenant, indexes, last>>
    /\ UNCHANGED <<telVars, rpcVars, pureVars>>

ToolOutcomes == {"data", "empty", "fail"}

\* the search branch, lines 149-167
SearchCall(r, out) ==
    /\ turn[r].pc = "search"
    /\ running = r
    /\ SetTenant(r)
    /\ CASE out = "fail"  -> turn' = Finish(r, "http400") /\ running' = ""
         [] out = "empty" -> /\ turn' = [turn EXCEPT ![r].pc = "llm", ![r].found = TRUE,
                                                     ![r].call = "", ![r].emptyFinds = 0]
                             /\ UNCHANGED running
         [] OTHER         -> /\ turn' = [turn EXCEPT ![r].pc = "llm", ![r].call = "",
                                                     ![r].gotData = TRUE]
                             /\ UNCHANGED running
    /\ UNCHANGED <<history, turnSeq, conversation_contexts, routerClient>>

\* the prefetch of collection_schema, lines 169-176
PrefetchSchema(r, ok) ==
    /\ turn[r].pc = "prefetch_schema"
    /\ running = r
    /\ SetTenant(r)
    /\ IF ok THEN /\ turn' = [turn EXCEPT ![r].pc = "prefetch_count",
                                          ![r].prefetched = Append(@, "collection_schema")]
                   /\ UNCHANGED running
             ELSE turn' = Finish(r, "http400") /\ running' = ""
    /\ UNCHANGED <<history, turnSeq, conversation_contexts, routerClient>>

\* the prefetch of count, lines 177-182
PrefetchCount(r, ok) ==
    /\ turn[r].pc = "prefetch_count"
    /\ running = r
    /\ SetTenant(r)
    /\ IF ok THEN /\ turn' = [turn EXCEPT ![r].pc = "tool",
                                          ![r].prefetched = Append(@, "count")]
                   /\ UNCHANGED running
             ELSE turn' = Finish(r, "http400") /\ running' = ""
    /\ UNCHANGED <<history, turnSeq, conversation_contexts, routerClient>>

\* the requested tool, line 184, up to the await of line 186
ToolCall(r, out) ==
    /\ turn[r].pc = "tool"
    /\ running = r
    /\ out = "empty" => CanBeEmpty(turn[r].call)
    /\ SetTenant(r)
    /\ IF out = "fail"
       THEN turn' = Finish(r, "http400")
       ELSE turn' = [turn EXCEPT ![r].pc = "replace", ![r].empty = (out = "empty"),
                                 ![r].call = "", ![r].withColl = FALSE,
                                 ![r].prefetched = <<>>,
                                 ![r].gotData = @ \/ out = "data",
                                 ![r].emptyFinds =
                                     IF out = "empty" /\ turn[r].call = "find"
                                        /\ ~turn[r].found /\ @ < RetryBudget
                                     THEN @ + 1 ELSE @]
    /\ running' = ""
    /\ UNCHANGED <<history, turnSeq, conversation_contexts, routerClient>>

\* the name replacement returns, lines 186-198
AfterReplace(r) ==
    /\ turn[r].pc = "replace"
    /\ running = ""
    /\ running' = r
    /\ LET found == turn[r].found \/ ~turn[r].empty
       IN  turn' = IF ~found /\ turn[r].retries > 0
                   THEN [turn EXCEPT ![r].pc = "llm", ![r].retries = @ - 1,
                                     ![r].empty = FALSE]
                   ELSE [turn EXCEPT ![r].pc = "llm", ![r].found = TRUE,
                                     ![r].empty = FALSE, ![r].emptyFinds = 0]
    /\ UNCHANGED <<history, turnSeq, conversation_contexts, routerClient>>
    /\ UNCHANGED <<toolVars, telVars, rpcVars, pureVars>>

\* the summary and the two appends, lines 205-218
Summarize(r, ok) ==
    /\ turn[r].pc = "summarize"
    /\ running = r
    /\ LET c == turn[r].company
           q == turn[r].query
           summary == IF ok THEN "summary" ELSE "raw"
       IN  /\ history' = [history EXCEPT ![c] =
                             DequeAppend(DequeAppend(@, HistEntry("user", q, "query")),
                                         HistEntry("assistant", q, summary))]
           /\ turn' = Finish(r, summary)
    /\ running' = ""
    /\ UNCHANGED <<turnSeq, conversation_contexts, routerClient>>
    /\ UNCHANGED <<toolVars, telVars, rpcVars, pureVars>>

\* the response is sent and the request is over
Respond(r) ==
    /\ turn[r].pc = "done"
    /\ turn' = [turn EXCEPT ![r] = IdleTurn]
    /\ UNCHANGED <<history, turnSeq, running, conversation_contexts, routerClient>>
    /\ UNCHANGED <<toolVars, telVars, rpcVars, pureVars>>

NextChat ==
    \/ \E r \in Slots, c \in Tenants : ChatStart(r, c)
    \/ \E r \in Slots, route \in {"data", "chat", "fail"} : RouteReply(r, route)
    \/ \E r \in Slots, fc \in FunctionCalls : LlmFunctionCall(r, fc)
    \/ \E r \in Slots : LlmTerminal(r)
    \/ \E r \in Slots : LlmError(r)
    \/ \E r \in Slots, out \in ToolOutcomes : SearchCall(r, out)
    \/ \E r \in Slots, ok \in BOOLEAN : PrefetchSchema(r, ok)
    \/ \E r \in Slots, ok \in BOOLEAN : PrefetchCount(r, ok)
    \/ \E r \in Slots, out \in ToolOutcomes : ToolCall(r, out)
    \/ \E r \in Slots : AfterReplace(r)
    \/ \E r \in Slots, ok \in BOOLEAN : Summarize(r, ok)
    \/ \E r \in Slots : Respond(r)

\* The histories earlier turns have left: none, or four answered questions.
RECURSIVE PairsOf(_)
PairsOf(qs) ==
    IF qs = <<>> THEN <<>>
    ELSE <<HistEntry("user", Head(qs), "query"),
           HistEntry("assistant", Head(qs), "summary")>> \o PairsOf(Tail(qs))

EarlierHistory ==
    [c \in Tenants |-> IF c = "A" THEN PairsOf(<<-4, -3, -2, -1>>) ELSE <<>>]

InitOrchestrator ==
    /\ InitTools
    /\ allowed = <<>>
    /\ InitTel(FALSE)
    /\ InitChatAt(EarlierHistory)
    /\ InitRpc
    /\ InitPure

SpecChat == InitOrchestrator /\ [][NextChat]_vars

\* The orchestrator with OPENAI_API_KEY in the environment: the router has
\* its client and keeps the context of the queries it classified.
InitRouter ==
    /\ InitTools
    /\ allowed = <<>>
    /\ InitTel(FALSE)
    /\ InitChatWith(EarlierHistory, TRUE)
    /\ InitRpc
    /\ InitPure

SpecRouter == InitRouter /\ [][NextChat]_vars

\* C10: a tenant's history never holds more than 10 entries, and a turn that
\* appends its (user, assistant) pair leaves the last 10 entries of the old
\* history followed by the pair: what no longer fits is dropped from the
\* front and the order of the rest is kept.
Suffix(s, n) == IF Len(s) > n THEN SubSeq(s, Len(s) - n + 1, Len(s)) ELSE s

Appends(r) == turn[r].pc = "summarize" /\ turn'[r].pc = "done"

C10_HistoryRing ==
    /\ [](\A c \in Tenants : Len(history[c]) <= HistoryMaxLen)
    /\ [][\A r \in Slots : Appends(r) =>
            LET c == turn[r].company
                q == turn[r].query
            IN  /\ history'[c] = Suffix(history[c] \o <<HistEntry("user", q, "query"),
                                                        HistEntry("assistant", q, turn'[r].reply)>>,
                                        HistoryMaxLen)
                /\ \A d \in Tenants \ {c} : history'[d] = history[d]]_vars

\* a finished turn that read a full history and whose pair is now its tail
C10_Witness ==
    \E r \in Slots :
        /\ turn[r].pc = "done"
        /\ turn[r].reply \in {"summary", "raw"}
        /\ Len(turn[r].hist) = HistoryMaxLen
        /\ LET h == history[turn[r].company]
           IN  /\ Len(h) = HistoryMaxLen
               /\ h[HistoryMaxLen].query = turn[r].query
               /\ h[1] = turn[r].hist[3]

\* C11: in a data turn in which nothing was found, the step that takes in
\* the second find result without documents ends the turn with the canned
\* "No data found" reply: the turn makes no further LLM call.
SecondEmptyFind(r) ==
    /\ turn[r].pc = "replace" /\ turn'[r].pc # "replace"
    /\ turn[r].emptyFinds = RetryBudget /\ turn[r].empty /\ ~turn[r].found
C11_TwoEmptyFindsStop ==
    [][\A r \in Slots : SecondEmptyFind(r) =>
          (turn'[r].pc = "done" /\ turn'[r].reply = "canned")]_vars

\* C20: when the router classifies the query as chat, the router's reply is
\* the response and the turn's (user, assistant) pair is appended to the
\* tenant's history.
RouterAnswers(r) ==
    turn[r].pc = "route" /\ turn'[r].pc = "done" /\ turn'[r].reply # "http500"
C20_ChatRouteAppends ==
    [][\A r \in Slots : RouterAnswers(r) =>
          LET c == turn[r].company
              q == turn[r].query
          IN  /\ turn'[r].reply = "route"
              /\ history'[c] = Suffix(history[c] \o <<HistEntry("user", q, "query"),
                                                       HistEntry("assistant", q, "route")>>,
                                      HistoryMaxLen)]_vars

\* The event loop runs every coroutine that is ready: a request that holds
\* the loop takes its next step, and one that waits for the loop (at the
\* router's answer or at the name replacement) gets it in turn.
TurnStep(r) ==
    \/ \E fc \in FunctionCalls : LlmFunctionCall(r, fc)
    \/ LlmTerminal(r)
    \/ LlmError(r)
    \/ \E out \in ToolOutcomes : SearchCall(r, out)
    \/ \E ok \in BOOLEAN : PrefetchSchema(r, ok)
    \/ \E ok \in BOOLEAN : PrefetchCount(r, ok)
    \/ \E out \in ToolOutcomes : ToolCall(r, out)
    \/ \E ok \in BOOLEAN : Summarize(r, ok)
    \/ Respond(r)
LoopStep(r) ==
    \/ \E route \in {"data", "chat", "fail"} : RouteReply(r, route)
    \/ AfterReplace(r)

SpecChatFair ==
    /\ SpecChat
    /\ \A r \in Slots : WF_vars(TurnStep(r)) /\ SF_vars(LoopStep(r))

\* C12: a turn that has reached the tool-calling loop ends: whatever sequence
\* of function calls and terminal messages the LLM returns, the turn replies
\* or fails after finitely many LLM calls.
C12_TurnTerminates ==
    \A r \in Slots : (turn[r].pc = "llm") ~> (turn[r].pc = "done")

\* The steps of a turn in which call_tool executes a tool: the search, the
\* two prefetches and the requested tool.
ToolPcs == {"search", "prefetch_schema", "prefetch_count", "tool"}
ExecutesTool(r) == turn[r].pc \in ToolPcs /\ turn'[r] # turn[r]

\* C21: with turns of several tenants in flight on the one shared session,
\* every tool execution of a turn (the requested tool and the prefetched
\* collection_schema and count) runs while the session's tenant id is the
\* company_id of the turn that issued it.
C21_ToolRunsUnderOwnTenant ==
    [][\A r \in Slots : ExecutesTool(r) => tenantId' = turn[r].company]_vars

\* Two turns of different tenants are in flight, both past a tool call and
\* awaiting the name replacement; the session holds the tenant of the later.
C21_Witness ==
    /\ turn["r1"].pc = "replace"
    /\ turn["r2"].pc = "replace"
    /\ turn["r1"].company # turn["r2"].company
    /\ tenantId = turn["r2"].company

\* The positions of a request inside _run_chat, from the read of the
\* tenant's history (line 74) to the two appends (lines 216-217).
InRunChat(r) ==
    turn[r].pc \in ToolPcs \cup {"llm", "replace", "summarize"}

\* C22: two turns of the same tenant never overlap: the later one is inside
\* _run_chat, and has read the history, only after the earlier one has
\* appended its (user, assistant) pair.
C22_SameTenantTurnsSerial ==
    \A r1, r2 \in Slots :
        (r1 # r2 /\ InRunChat(r1) /\ InRunChat(r2))
            => turn[r1].company # turn[r2].company

\* The LLM's message is terminal: the turn is at the LLM call and the step
\* either nudges (one retry less, another LLM call) or accepts the message.
TerminalStep(r) ==
    /\ turn[r].pc = "llm"
    /\ turn'[r] # turn[r]
    /\ turn'[r].pc \in {"llm", "summarize"}
    /\ turn'[r].call = ""
    /\ turn'[r].gotData = turn[r].gotData
    /\ turn'[r].found = turn[r].found
Nudged(r)   == turn'[r].pc = "llm" /\ turn'[r].retries = turn[r].retries - 1
Accepted(r) == turn'[r].pc = "summarize"

\* chat() calls light_llm for the request of slot r.
RouterCalled(r) == turn[r].pc = "idle" /\ turn'[r].pc = "route"

\* C30: the recent-conversation context in the router's prompt for a request
\* of tenant T holds only earlier queries of tenant T: a query one tenant
\* submitted never appears in the prompt built for another tenant.
C30_RouterContextOwnTenant ==
    [][\A r \in Slots :
        RouterCalled(r) =>
            \A i \in DOMAIN RouterPrompt :
                RouterPrompt[i].company = turn'[r].company]_vars

\* C23: while retries remain, `found` is true exactly when some tool call
\* of the turn returned a non-empty result; a terminal message of the LLM
\* is answered by a nudge and another LLM call while every result so far was
\* empty (an empty search included) and retries remain, and is accepted
\* without a nudge once a tool (a non-empty search included) returned data.
C23_NudgeUntilData ==
    /\ [](\A r \in Slots :
            (turn[r].pc = "llm" /\ turn[r].retries > 0)
                => (turn[r].found <=> turn[r].gotData))
    /\ [][\A r \in Slots :
            TerminalStep(r) =>
                IF turn[r].gotData THEN Accepted(r)
                ELSE turn[r].retries > 0 => Nudged(r)]_vars

\* The requested tool of a turn executes.
RequestedToolRuns(r) == turn[r].pc = "tool" /\ turn'[r].pc # "tool"

\* C24: when the LLM asks for count, find or aggregate with a collection,
\* collection_schema and then count run on that collection, and their pairs
\* are in the messages, before the requested tool runs; the requested tool
\* never runs first and does not run when a prefetch fails.
C24_PrefetchBeforeTool ==
    [][\A r \in Slots :
        (/\ RequestedToolRuns(r)
         /\ turn[r].call \in {"count", "find", "aggregate"}
         /\ turn[r].withColl)
            => turn[r].prefetched = <<"collection_schema", "count">>]_vars

\* Both prefetches of an aggregate on a collection have run and the
\* aggregate is the next call.
C24_Witness ==
    \E r \in Slots :
        /\ turn[r].pc = "tool"
        /\ turn[r].call = "aggregate"
        /\ turn[r].withColl
        /\ turn[r].prefetched = <<"collection_schema", "count">>

----------------------------------------------------------------------------
(* src/server.py, src/transport.py: RpcServer.serve reads one request at a
   time from its transport, handles it and writes the response before it
   reads the next. *)

MaxRequests == 3   \* requests the transport delivers in one behaviour

\* The transport serve was given (main.py line 98).
Transport == "stdio"

CapabilityNames == {"logging", "streaming", "interrupt"}

\* main.py line 64: the one resource, and what its handler returns:
\* config.__dict__, whose disabled_tools is a DisabledTools instance.
ResourceHandlers == {"config://config"}
PyObject(cls) == [t |-> "object", s |-> <<cls>>, items |-> <<>>]
ConfigDict ==
    Dict(<<KV("db_name", Str(<<"crm">>)), KV("read_only", Bool(TRUE)),
           KV("disabled_tools", PyObject("DisabledTools"))>>)

\* json_util.dumps: BSON and JSON values serialize, other objects raise.
RECURSIVE JsonSerializable(_)
JsonSerializable(v) ==
    CASE v.t = "object" -> FALSE
      [] v.t \in {"dict", "list"} ->
           \A i \in 1..Len(v.items) : JsonSerializable(v.items[i].v)
      [] OTHER -> TRUE

\* What a handler returns or raises.
Outcome(exc, result, message) == [exc |-> exc, result |-> result, message |-> message]
Returns(v)      == Outcome("none", v, "")
Raises(exc, m)  == Outcome(exc, Null, m)

\* _handle_capability, lines 128-156.  With enabled true the subscriber
\* set itself is called with the transport.
CapabilityOutcome(name, enabled) ==
    IF name = NoName THEN Raises("ValueError", "Missing 'name' in capability params")
    ELSE IF name \notin CapabilityNames THEN Raises("ValueError", "Unknown capability")
    ELSE IF enabled THEN Raises("TypeError", "'set' object is not callable")
    ELSE Returns(Bool(TRUE))

\* lines 140-143: the capability set, changed before the subscription.
CapabilitiesAfter(caps, name, enabled) ==
    IF name \notin CapabilityNames THEN caps
    ELSE IF enabled THEN caps \cup {name} ELSE caps \ {name}

\* lines 145-150: set.discard of the transport when enabled is false.
SubscribersAfter(subs, cap, name, enabled) ==
    IF name = cap /\ ~enabled THEN subs \ {Transport} ELSE subs

\* _handle_resource, lines 158-171.
ResourceOutcome(name) ==
    IF name = NoName THEN Raises("ValueError", "Missing 'name' in resource params")
    ELSE IF name \notin ResourceHandlers THEN Raises("ValueError", "Unknown resource")
    ELSE Returns(ConfigDict)

\* _call_tool, lines 173-190, on top of ToolBase.run: an unknown name is a
\* KeyError; run validates, then needs the session's tenant.
ToolOutcome(method, a, run) ==
    IF method \notin ToolNames THEN Raises("KeyError", method)
    ELSE IF ~ValidArgs(method, a) THEN Raises("ToolException", "Invalid arguments")
    ELSE IF tenantId = "" THEN Raises("RuntimeError", "No tenant ID set")
    ELSE IF run.exc = "none" THEN Returns(run.result)
    ELSE Raises(run.exc, run.msg.kind)

\* _handle, lines 103-111.
HandleOutcome(req) ==
    CASE req.method = "capability" -> CapabilityOutcome(req.name, req.enabled)
      [] req.method = "resource"   -> ResourceOutcome(req.name)
      [] OTHER -> ToolOutcome(req.method, req.args,
                              _call_tool(IF req.method \in ToolNames THEN req.method
                                         ELSE "list_collections",
                                         req.args, tenantId, allowed, nonTenant,
                                         indexes, Env0))

\* _handle, lines 113-121: the response to request id_.
ErrorCode == -32000
Response(id, o) ==
    IF o.exc = "none"
    THEN [kind |-> "result", result |-> o.result, id |-> id, message |-> "", code |-> 0]
    ELSE [kind |-> "error", result |-> Null, id |-> id, message |-> o.message,
          code |-> ErrorCode]

\* EjsonTransport.write_message, transport.py lines 36-47: a message that
\* does not serialize is logged and not written.
WriteMessage(written, msg) ==
    IF JsonSerializable(msg.result) THEN Append(written, msg) ELSE written

\* The requests of the model.
RpcInputs ==
    { <<"capability", n, e, NoArgs>> : n \in CapabilityNames \cup {"metrics"},
                                       e \in BOOLEAN }
    \cup { <<"capability", NoName, TRUE, NoArgs>>,
           <<"resource", "config://config", FALSE, NoArgs>>,
           <<"resource", "config://other", FALSE, NoArgs>>,
           <<"resource", NoName, FALSE, NoArgs>>,
           <<"list_collections", NoName, FALSE, NoArgs>>,
           <<"count", NoName, FALSE, NoArgs>>,
           <<"drop", NoName, FALSE, NoArgs>> }

\* serve, lines 67-80: a request arrives.
ServeRead(in) ==
    /\ rpcPc = "read"
    /\ Len(rpcRead) < MaxRequests
    /\ rpcReq' = Request(Len(rpcRead) + 1, in[1], in[2], in[3], in[4])
    /\ rpcRead' = Append(rpcRead, Len(rpcRead) + 1)
    /\ rpcPc' = "handle"
    /\ UNCHANGED <<rpcWritten, capabilities, log_subscribers, stream_subscribers,
                   interrupt_subscribers, mongoOpen, exitFlushed>>
    /\ UNCHANGED <<toolVars, telVars, chatVars, pureVars>>

\* serve, lines 77-78: read_message returns None at the end of the input.
ServeEof ==
    /\ rpcPc = "read"
    /\ rpcPc' = "closed"
    /\ UNCHANGED <<rpcReq, rpcRead, rpcWritten, capabilities, log_subscribers,
                   stream_subscribers, interrupt_subscribers, mongoOpen, exitFlushed>>
    /\ UNCHANGED <<toolVars, telVars, chatVars, pureVars>>

\* _handle, lines 96-126.
Handle ==
    /\ rpcPc = "handle"
    /\ \E o \in {HandleOutcome(rpcReq)} :
          rpcWritten' = WriteMessage(rpcWritten, Response(rpcReq.id, o))
    /\ IF rpcReq.method = "capability"
       THEN /\ capabilities' = CapabilitiesAfter(capabilities, rpcReq.name, rpcReq.enabled)
            /\ log_subscribers' =
                  SubscribersAfter(log_subscribers, "logging", rpcReq.name, rpcReq.enabled)
            /\ stream_subscribers' =
                  SubscribersAfter(stream_subscribers, "streaming", rpcReq.name,
                                   rpcReq.enabled)
            /\ interrupt_subscribers' =
                  SubscribersAfter(interrupt_subscribers, "interrupt", rpcReq.name,
                                   rpcReq.enabled)
       ELSE UNCHANGED <<capabilities, log_subscribers, stream_subscribers,
                        interrupt_subscribers>>
    /\ rpcPc' = "read"
    /\ UNCHANGED <<rpcReq, rpcRead, mongoOpen, exitFlushed>>
    /\ UNCHANGED <<toolVars, telVars, chatVars, pureVars>>

\* Telemetry.__init__, line 64: atexit.register(self.shutdown), made when
\* telemetry is enabled and the API is configured; shutdown() calls flush().
AtExitFlushes == telEnabled

\* main.py lines 79-92, the handler of SIGINT and SIGTERM: record
\* server_stop, telemetry.flush(), server.close() (which flushes and calls
\* session.close(), server.py lines 192-207: the client is closed),
\* sys.exit(0).
Shutdown ==
    /\ rpcPc \in {"read", "handle"}
    /\ exitFlushed' = TRUE
    /\ mongoOpen' = FALSE
    /\ rpcPc' = "exited"
    /\ UNCHANGED <<rpcReq, rpcRead, rpcWritten, capabilities, log_subscribers,
                   stream_subscribers, interrupt_subscribers>>
    /\ UNCHANGED <<toolVars, telVars, chatVars, pureVars>>

\* main.py lines 97-113: serve returned without an exception, so the except
\* branch is skipped, main() returns and the interpreter exits, running the
\* atexit hooks.
MainReturns ==
    /\ rpcPc = "closed"
    /\ exitFlushed' = AtExitFlushes
    /\ rpcPc' = "exited"
    /\ UNCHANGED <<rpcReq, rpcRead, rpcWritten, capabilities, log_subscribers,
                   stream_subscribers, interrupt_subscribers, mongoOpen>>
    /\ UNCHANGED <<toolVars, telVars, chatVars, pureVars>>

NextRpc ==
    \/ \E in \in RpcInputs : ServeRead(in)
    \/ ServeEof
    \/ Handle
    \/ Shutdown
    \/ MainReturns

\* The stdio server of main.py: no tenant is set on its session.
InitServer ==
    /\ InitTools
    /\ InitTel(FALSE)
    /\ InitChat
    /\ InitRpc
    /\ InitPure

SpecRpc == InitServer /\ [][NextRpc]_vars

\* C15: whenever serve is between two requests, the transport holds exactly
\* one response per request read, in the order read, each with its
\* request's id and either a result or an error with code -32000.
IsResponseTo(msg, id) ==
    /\ msg.id = id
    /\ \/ msg.kind = "result"
       \/ msg.kind = "error" /\ msg.code = ErrorCode
C15_OneResponsePerRequest ==
    rpcPc \in {"read", "closed"}
    => /\ Len(rpcWritten) = Len(rpcRead)
       /\ \A i \in 1..Len(rpcRead) : IsResponseTo(rpcWritten[i], rpcRead[i])

\* C16: once a capability request naming logging, streaming or interrupt is
\* handled, its response is the result true and the transport is in that
\* capability's subscriber set exactly when enabled was true.
Subscribers(name) ==
    CASE name = "logging"   -> log_subscribers
      [] name = "streaming" -> stream_subscribers
      [] OTHER              -> interrupt_subscribers
AnsweredTrue(req) ==
    \E i \in 1..Len(rpcWritten) :
        /\ rpcWritten[i].id = req.id
        /\ rpcWritten[i].kind = "result"
        /\ rpcWritten[i].result = Bool(TRUE)
C16_CapabilitySubscribes ==
    (rpcPc # "handle" /\ rpcReq.method = "capability" /\ rpcReq.name \in CapabilityNames)
    => /\ AnsweredTrue(rpcReq)
       /\ (Transport \in Subscribers(rpcReq.name)) <=> rpcReq.enabled

\* C27: in stdio mode, when the transport reaches the end of the input the
\* serve loop exits and the shutdown then completes as it does on SIGINT or
\* SIGTERM: telemetry is flushed and the session's Mongo client is closed.
C27_EofShutsDown ==
    rpcPc = "exited" => (exitFlushed /\ ~mongoOpen)

----------------------------------------------------------------------------
(* tools/tool_base.py and tools/find.py : the injection of the             *)
(* case-insensitive match and its un-wrapping, on filters of bounded size. *)

MaxLen == 3

\* The chunks strings are built from: two runs of alphanumerics and three
\* characters re.escape() escapes.
Chunks  == {"a", "Converted", "^", "$", "."}
Strings == UNION {[1..n -> Chunks] : n \in 0..MaxLen}

\* The strings that appear inside the composite filters.
Literals == {<<"Converted">>, <<"^", "a", "$">>}

\* The operators of a filter a string can sit directly under.
ValueOperators == {"$eq", "$ne", "$regex"}

FilterInputs ==
    {Str(cs) : cs \in Strings}
    \cup {Dict(<<KV("status", Str(cs))>>) : cs \in Literals}
    \cup {Dict(<<KV("status", Dict(<<KV(op, Str(cs))>>))>>) :
            op \in ValueOperators, cs \in Literals}
    \cup {Dict(<<KV("status", Dict(<<KV("$in", ListOf(<<Str(cs)>>))>>))>>) : cs \in Literals}
    \cup {Dict(<<KV("$and", ListOf(<<Dict(<<KV("status", Str(cs))>>)>>))>>) : cs \in Literals}
    \cup {Dict(<<KV("tags", ListOf(<<Str(cs), Num(1)>>))>>) : cs \in Literals}

\* ToolBase.run, step 5: the filter of the call goes through the injection.
Inject ==
    /\ filterArg # Unset
    /\ injected = Unset
    /\ injected' = _inject_case_insensitive(filterArg)
    /\ UNCHANGED <<filterArg, unwrapped>>
    /\ UNCHANGED <<toolVars, telVars, chatVars, rpcVars>>

\* FindTool.execute: the injected filter goes through the un-wrapping.
Unwrap ==
    /\ injected # Unset
    /\ unwrapped = Unset
    /\ unwrapped' = _unwrap_ci_regex(injected)
    /\ UNCHANGED <<filterArg, injected>>
    /\ UNCHANGED <<toolVars, telVars, chatVars, rpcVars>>

InitInject ==
    /\ InitTools
    /\ InitTel(FALSE)
    /\ InitChat
    /\ InitRpc
    /\ \E f \in FilterInputs : InitPureAt(f)

NextInject ==
    \/ Inject
    \/ Unwrap

SpecInject == InitInject /\ [][NextInject]_vars

\* y is x with every bare string rewritten to the escaped regex and every
\* value under a key that starts with "$" left as it is.
RECURSIVE KeepsDollarValues(_, _)
KeepsDollarValues(x, y) ==
    CASE IsDict(x) ->
           /\ IsDict(y)
           /\ Len(y.items) = Len(x.items)
           /\ \A i \in 1..Len(x.items) :
                 /\ y.items[i].k = x.items[i].k
                 /\ IF StartsWithDollar(x.items[i].k)
                    THEN y.items[i].v = x.items[i].v
                    ELSE KeepsDollarValues(x.items[i].v, y.items[i].v)
      [] IsList(x) ->
           /\ IsList(y)
           /\ Len(y.items) = Len(x.items)
           /\ \A i \in 1..Len(x.items) :
                 KeepsDollarValues(x.items[i].v, y.items[i].v)
      [] IsStr(x) ->
           y = Dict(<<KV("$regex", Str(re_escape(x.s))), KV("$options", Str(<<"i">>))>>)
      [] OTHER -> y = x

\* C28: the injection rewrites each bare string of a filter to
\* {$regex: escape(v), $options: "i"} and leaves every value under a key
\* that starts with "$" unchanged, a string directly under $eq, $ne or
\* $regex included.
C28_DollarValuesUnchanged ==
    injected # Unset => KeepsDollarValues(filterArg, injected)

\* C29: un-wrapping the injection of a string gives the string back.
C29_UnwrapInvertsInject ==
    (IsStr(filterArg) /\ unwrapped # Unset) => unwrapped = filterArg

====
